---- MODULE Spec2Model ----
(***************************************************************************)
(* FemCare AI: cycle statistics, regularity, next-cycle prediction,        *)
(* fertility/phase estimation and risk scoring, as implemented in          *)
(*   backend/agent/tools/cycle_analyzer.py   (CycleAnalyzer)               *)
(*   backend/agent/core.py                   (FemCareAgent risk scorers)   *)
(*   backend/app/routers/cycles.py           (cycle endpoints)             *)
(*   backend/app/routers/insights.py         (risk scorers)                *)
(*                                                                         *)
(* Conventions.  Dates are day numbers (integers).  Python None is the     *)
(* value None (-1).  Scores and confidences are kept in hundredths         *)
(* (0.73 is 73), one-decimal values in tenths (28.0 is 280); evidence      *)
(* weights are doubled so that 1.5 is the integer 3.  Python's round() is  *)
(* computed on the exact rational value with ties to even.                 *)
(***************************************************************************)
EXTENDS Integers, Sequences, FiniteSets, TLC

VARIABLES user, cycles, symptoms, today, resp, prev, risk_scores, clock,
          sessions, base

vars == <<user, cycles, symptoms, today, resp, prev, risk_scores, clock,
          sessions, base>>

\* no request in flight
NoSessions == <<>>

None == -1
\* None in a field that otherwise holds a (start, end) pair
NoWindow == <<>>

\* ---------------------------------------------------------------- bounds
MaxCycles == 4
MaxRows == 3
MaxCycleId == 4
MaxToday == 88
MaxRiskCycles == 3
MaxGroups == 2
MaxRepeatCycles == 2
MaxRepeatGroups == 1

\* ------------------------------------------------------- program constants
MIN_NORMAL_CYCLE == 21
MAX_NORMAL_CYCLE == 35
IDEAL_CYCLE == 28
min_cycles_for_confidence == 6

\* ---------------------------------------------------------------- helpers
Min(a, b) == IF a <= b THEN a ELSE b
Max(a, b) == IF a >= b THEN a ELSE b

RECURSIVE SumSeq(_)
SumSeq(s) == IF s = <<>> THEN 0 ELSE Head(s) + SumSeq(Tail(s))

RECURSIVE SumSq(_)
SumSq(s) == IF s = <<>> THEN 0 ELSE Head(s) * Head(s) + SumSq(Tail(s))

RECURSIVE MaxSeq(_)
MaxSeq(s) == IF Len(s) = 1 THEN s[1] ELSE Max(Head(s), MaxSeq(Tail(s)))

RECURSIVE MinSeq(_)
MinSeq(s) == IF Len(s) = 1 THEN s[1] ELSE Min(Head(s), MinSeq(Tail(s)))

\* round(num/den) for den > 0, ties to even (Python 3 round)
Round(num, den) ==
    LET q == num \div den
        r == num % den
    IN  IF 2 * r < den THEN q
        ELSE IF 2 * r > den THEN q + 1
        ELSE IF q % 2 = 0 THEN q ELSE q + 1

\* n^2 times the population variance of the list (np.std squared), exact
VarNum(L) == Len(L) * SumSq(L) - SumSeq(L) * SumSeq(L)

\* np.std(L) > k, for an integer k >= 0
StdGT(L, k) == VarNum(L) > k * k * Len(L) * Len(L)

\* round(np.std(L)): the integer nearest to sqrt(VarNum)/n, the even one
\* of the two when the deviation lies halfway between them
RoundStd(L) ==
    LET n == Len(L)
        V == VarNum(L)
        k0 == CHOOSE k \in 0..60 :
                /\ k = 0 \/ 4 * V > (2 * k - 1) * (2 * k - 1) * n * n
                /\ 4 * V <= (2 * k + 1) * (2 * k + 1) * n * n
    IN  IF 4 * V = (2 * k0 + 1) * (2 * k0 + 1) * n * n /\ k0 % 2 = 1
        THEN k0 + 1 ELSE k0

\* L[-k:]
LastN(L, k) == IF Len(L) <= k THEN L ELSE SubSeq(L, Len(L) - k + 1, Len(L))

\* sorted(cycles, key=lambda c: c.start_date): stable insertion sort
RECURSIVE InsertByStart(_, _)
InsertByStart(c, s) ==
    IF s = <<>> THEN <<c>>
    ELSE IF s[Len(s)].start <= c.start THEN Append(s, c)
    ELSE Append(InsertByStart(c, SubSeq(s, 1, Len(s) - 1)), s[Len(s)])

RECURSIVE sorted(_)
sorted(cs) ==
    IF cs = <<>> THEN <<>>
    ELSE InsertByStart(cs[Len(cs)], sorted(SubSeq(cs, 1, Len(cs) - 1)))

\* ------------------------------------------- cycle_analyzer.CycleAnalyzer
\* LengthsUpTo with the lower limit exclusive (15 < length <= 60)
RECURSIVE LengthsUpToExclusive(_, _)
LengthsUpToExclusive(sc, k) ==
    IF k < 2 THEN <<>>
    ELSE LET length == sc[k].start - sc[k - 1].start
             lengths == LengthsUpToExclusive(sc, k - 1)
         IN  IF 15 < length /\ length <= 60 THEN Append(lengths, length)
             ELSE lengths

\* the loop of _calculate_cycle_lengths, i = 1 .. len-1 (0-based in Python)
RECURSIVE LengthsUpTo(_, _)
LengthsUpTo(sc, k) ==
    IF k < 2 THEN <<>>
    ELSE LET length == sc[k].start - sc[k - 1].start
             lengths == LengthsUpTo(sc, k - 1)
         IN  IF 15 <= length /\ length <= 60 THEN Append(lengths, length)
             ELSE lengths

calculate_cycle_lengths(sorted_cycles) ==
    LengthsUpTo(sorted_cycles, Len(sorted_cycles))

\* OutOfRange with the limits themselves counted as out of range
OutOfRangeInclusive(lengths) ==
    Cardinality({i \in 1..Len(lengths) :
        lengths[i] <= MIN_NORMAL_CYCLE \/ lengths[i] >= MAX_NORMAL_CYCLE})

\* number of lengths outside the normal range
OutOfRange(lengths) ==
    Cardinality({i \in 1..Len(lengths) :
        lengths[i] < MIN_NORMAL_CYCLE \/ lengths[i] > MAX_NORMAL_CYCLE})

\* assess_regularity deducting the full 0.4 as soon as one length is out
\* of range, whatever the share of such lengths
assess_regularity_flat_penalty(lengths) ==
    LET n == Len(lengths)
        high == StdGT(lengths, 7)
        mid == ~high /\ StdGT(lengths, 4)
        oor == OutOfRange(lengths)
        span == IF n > 0 THEN MaxSeq(lengths) - MinSeq(lengths) ELSE 0
        raw == 100
               - (IF high THEN 30 ELSE IF mid THEN 10 ELSE 0)
               - (IF oor > 0 THEN 40 ELSE 0)
               - (IF span > 14 THEN 20 ELSE 0)
        clamped == Max(0, Min(100, raw))
    IN  [is_regular |-> clamped >= 70 /\ ~high,
         score |-> clamped,
         reasons |-> <<"Your cycles appear regular!">>]

\* _assess_regularity(lengths, avg, std) as analyze calls it: std is
\* np.std(lengths) (0 for a single length), avg is not read by the body.
\* The score is held as a rational in hundredths (times n) before rounding.
assess_regularity(lengths) ==
    LET n == Len(lengths)
        high == StdGT(lengths, 7)
        mid == ~high /\ StdGT(lengths, 4)
        oor == OutOfRange(lengths)
        span == IF n > 0 THEN MaxSeq(lengths) - MinSeq(lengths) ELSE 0
        \* score * 100 * n
        raw == 100 * n
               - (IF high THEN 30 * n ELSE IF mid THEN 10 * n ELSE 0)
               - 40 * oor
               - (IF span > 14 THEN 20 * n ELSE 0)
        clamped == Max(0, Min(100 * n, raw))
        reasons ==
            (IF high THEN <<"High cycle variability">> ELSE <<>>)
            \o (IF oor > 0 /\ \E i \in 1..n : lengths[i] < MIN_NORMAL_CYCLE
                THEN <<"Some cycles are shorter than 21 days">> ELSE <<>>)
            \o (IF oor > 0 /\ \E i \in 1..n : lengths[i] > MAX_NORMAL_CYCLE
                THEN <<"Some cycles are longer than 35 days">> ELSE <<>>)
            \o (IF span > 14 THEN <<"Large variation">> ELSE <<>>)
    IN  [is_regular |-> clamped >= 70 * n /\ ~high,
         score |-> Round(clamped, n),
         reasons |-> IF reasons # <<>> THEN reasons
                     ELSE <<"Your cycles appear regular!">>]

\* WeightedSum with the weights running the other way: the oldest length
\* gets the largest weight
RECURSIVE WeightedSumOldestFirst(_, _)
WeightedSumOldestFirst(L, k) ==
    IF k = 0 THEN 0 ELSE (Len(L) - k + 1) * L[k] + WeightedSumOldestFirst(L, k - 1)

\* sum of (i * lengths[i]): numerator of np.average with weights 1..n
RECURSIVE WeightedSum(_, _)
WeightedSum(L, k) == IF k = 0 THEN 0 ELSE k * L[k] + WeightedSum(L, k - 1)

WeightedMeanRounded(L) ==
    Round(WeightedSum(L, Len(L)), (Len(L) * (Len(L) + 1)) \div 2)

\* Confidence without the cap on the sample term: n/cap instead of
\* min(1, n/cap)
ConfidenceUncapped(L, cap) ==
    LET n == Len(L)
        V == VarNum(L)
        B(k) == 120 * cap + 80 * n - 2 * cap * k + cap
        Reached(k) == B(k) >= 0 /\ 144 * cap * cap * V <= B(k) * B(k) * n * n
    IN  IF V >= 100 * n * n THEN Round(40 * n, cap)
        ELSE CHOOSE k \in 0..400 : Reached(k) /\ ~Reached(k + 1)

\* round(0.6 * max(0, 1 - std/10) + 0.4 * min(1, n/cap), 2) in hundredths.
\* With m = min(n, cap): X = 60 - 6*std + 40*m/cap when std < 10, and the
\* rounded value is the largest k with 6*cap*std <= 60*cap + 40*m - cap*k + cap/2.
Confidence(L, cap) ==
    LET n == Len(L)
        m == Min(n, cap)
        V == VarNum(L)
        B(k) == 120 * cap + 80 * m - 2 * cap * k + cap
        Reached(k) == B(k) >= 0 /\ 144 * cap * cap * V <= B(k) * B(k) * n * n
    IN  IF V >= 100 * n * n THEN Round(40 * m, cap)
        ELSE CHOOSE k \in 0..100 : Reached(k) /\ ~Reached(k + 1)

\* the margin without its floor of two days
prediction_margin_unfloored(lengths) == RoundStd(lengths)

\* margin = max(2, round(std))
prediction_margin(lengths) == Max(2, RoundStd(lengths))

\* CycleAnalyzer._predict_next_cycle
analyzer_predict_next_cycle(sorted_cycles, lengths) ==
    LET last_cycle == sorted_cycles[Len(sorted_cycles)]
    IN  IF lengths = <<>>
        THEN LET predicted_date == last_cycle.start + IDEAL_CYCLE
             IN  [date |-> predicted_date, confidence |-> 30,
                  range |-> <<predicted_date - 5, predicted_date + 5>>]
        ELSE LET predicted_date == last_cycle.start + WeightedMeanRounded(lengths)
                 margin == prediction_margin(lengths)
             IN  [date |-> predicted_date,
                  confidence |-> Confidence(lengths, min_cycles_for_confidence),
                  range |-> <<predicted_date - margin, predicted_date + margin>>]

\* CycleAnalyzer._analyze_fertility; avg_length is the rational num/den
analyze_fertility(last_cycle, num, den) ==
    LET ovulation_day == Round(num - 14 * den, den)
        ovulation_date == last_cycle.start + ovulation_day
    IN  [ovulation_date |-> ovulation_date,
         fertile_window |-> <<ovulation_date - 5, ovulation_date + 1>>,
         ovulation_day_of_cycle |-> ovulation_day]

\* CycleAnalyzer._determine_current_phase; date.today() is the variable today
determine_current_phase(last_cycle, num, den, now) ==
    LET cycle_day == (now - last_cycle.start) + 1
    IN  [phase |-> IF cycle_day <= 5 THEN "menstrual"
                   ELSE IF cycle_day <= 13 THEN "follicular"
                   ELSE IF cycle_day <= 16 THEN "ovulation"
                   ELSE IF cycle_day <= Round(num, den) THEN "luteal"
                   ELSE "late_luteal",
         day |-> cycle_day]

empty_analysis ==
    [average_cycle_length |-> None,
     std_deviation |-> None,
     is_regular |-> None,
     regularity_score |-> 0,
     irregularity_reasons |-> <<"No cycle data available">>,
     next_prediction |-> None,
     prediction_confidence |-> 0]

\* minimum_analysis reporting no confidence at all
minimum_analysis_no_confidence(last_cycle, now) ==
    [average_cycle_length |-> 10 * IDEAL_CYCLE,
     std_deviation |-> 0,
     is_regular |-> None,
     regularity_score |-> 50,
     irregularity_reasons |-> <<"Need more data for accurate analysis">>,
     next_prediction |-> last_cycle.start + IDEAL_CYCLE,
     prediction_confidence |-> 0,
     current_phase |-> determine_current_phase(last_cycle, IDEAL_CYCLE, 1, now)]

minimum_analysis(last_cycle, now) ==
    [average_cycle_length |-> 10 * IDEAL_CYCLE,
     std_deviation |-> 0,
     is_regular |-> None,
     regularity_score |-> 50,
     irregularity_reasons |-> <<"Need more data for accurate analysis">>,
     next_prediction |-> last_cycle.start + IDEAL_CYCLE,
     prediction_confidence |-> 30,
     current_phase |-> determine_current_phase(last_cycle, IDEAL_CYCLE, 1, now)]

\* CycleAnalyzer.analyze
analyze(cs, now) ==
    IF cs = <<>> THEN empty_analysis
    ELSE
    LET sorted_cycles == sorted(cs)
        last == sorted_cycles[Len(sorted_cycles)]
        cycle_lengths == calculate_cycle_lengths(sorted_cycles)
    IN  IF cycle_lengths = <<>> THEN minimum_analysis(last, now)
        ELSE
        LET n == Len(cycle_lengths)
            total == SumSeq(cycle_lengths)
            regularity == assess_regularity(cycle_lengths)
            prediction == analyzer_predict_next_cycle(sorted_cycles, cycle_lengths)
            fertility == analyze_fertility(last, total, n)
            phase == determine_current_phase(last, total, n, now)
        IN  [average_cycle_length |-> Round(10 * total, n),
             is_regular |-> regularity.is_regular,
             regularity_score |-> regularity.score,
             irregularity_reasons |-> regularity.reasons,
             next_prediction |-> prediction.date,
             prediction_confidence |-> prediction.confidence,
             prediction_range |-> prediction.range,
             ovulation_estimate |-> fertility.ovulation_date,
             fertile_window |-> fertility.fertile_window,
             current_phase |-> phase.phase,
             cycle_day |-> phase.day,
             total_cycles_analyzed |-> n,
             longest_cycle |-> MaxSeq(cycle_lengths),
             shortest_cycle |-> MinSeq(cycle_lengths),
             cycle_lengths |-> LastN(cycle_lengths, 6)]

\* ------------------------------------------------------ routers/cycles.py
calculate_cycle_length(start_date, next_start_date) == next_start_date - start_date

\* the loop of predict_next_cycle (lines 41-44)
RECURSIVE RouterLengthsUpTo(_, _)
RouterLengthsUpTo(sc, k) ==
    IF k < 2 THEN <<>>
    ELSE LET length == calculate_cycle_length(sc[k - 1].start, sc[k].start)
             cycle_lengths == RouterLengthsUpTo(sc, k - 1)
         IN  IF 15 <= length /\ length <= 60 THEN Append(cycle_lengths, length)
             ELSE cycle_lengths

\* predict_next_cycle(cycles) -> (predicted_date, confidence)
predict_next_cycle(cs, now) ==
    IF Len(cs) < 2
    THEN IF cs # <<>>
         THEN [date |-> cs[1].start + 28, confidence |-> 30]
         ELSE [date |-> now + 28, confidence |-> 10]
    ELSE LET sorted_cycles == sorted(cs)
             cycle_lengths == RouterLengthsUpTo(sorted_cycles, Len(sorted_cycles))
             last_cycle == sorted_cycles[Len(sorted_cycles)]
         IN  IF cycle_lengths = <<>>
             THEN [date |-> last_cycle.start + 28, confidence |-> 30]
             ELSE [date |-> last_cycle.start + WeightedMeanRounded(cycle_lengths),
                   confidence |-> Confidence(cycle_lengths, 6)]

\* [c.cycle_length for c in cycles if c.cycle_length]
RECURSIVE StoredLengths(_)
StoredLengths(cs) ==
    IF cs = <<>> THEN <<>>
    ELSE LET c == cs[Len(cs)]
             rest == StoredLengths(SubSeq(cs, 1, Len(cs) - 1))
         IN  IF c.cycle_length # None /\ c.cycle_length # 0
             THEN Append(rest, c.cycle_length) ELSE rest

\* np.mean(cycle_lengths) if cycle_lengths else 28, as the rational num/den
AvgCycle(cs) ==
    LET L == StoredLengths(cs)
    IN  IF L # <<>> THEN [num |-> SumSeq(L), den |-> Len(L)]
        ELSE [num |-> 28, den |-> 1]

\* .order_by(desc(start_date)).first(): the row with the latest start_date
LatestCycle(cs) == sorted(cs)[Len(cs)]

\* .order_by(desc(start_date)).all()
RECURSIVE Reverse(_)
Reverse(s) == IF s = <<>> THEN <<>> ELSE Append(Reverse(Tail(s)), Head(s))

OrderByStartDesc(cs) == Reverse(sorted(cs))

\* ------------------------------------------------------------- symptoms
\* config.SYMPTOM_TYPES restricted to the symptom types the inputs use;
\* "tiredness" is a free-form type that no category lists
SYMPTOM_TYPES ==
    [physical |-> {"cramps", "headache", "fatigue", "dizziness", "pelvic_pain"},
     emotional |-> {"mood_swings"},
     hormonal |-> {"acne", "oily_skin", "hair_loss", "weight_changes"}]

\* classify_symptom(symptom_type)["category"]
classify_symptom(stype) ==
    IF stype \in SYMPTOM_TYPES.physical THEN "physical"
    ELSE IF stype \in SYMPTOM_TYPES.emotional THEN "emotional"
    ELSE IF stype \in SYMPTOM_TYPES.hormonal THEN "hormonal"
    ELSE "other"

\* kw in symptom_type.lower(): the scorers' keywords occurring in each type
Contains(stype, kw) ==
    kw \in (CASE stype = "acne" -> {"acne"}
              [] stype = "hair_loss" -> {"hair"}
              [] stype = "weight_changes" -> {"weight"}
              [] stype = "pelvic_pain" -> {"pain"}
              [] stype = "fatigue" -> {"fatigue"}
              [] stype = "tiredness" -> {"tired"}
              [] stype = "dizziness" -> {"dizz"}
              [] stype = "headache" -> {"headache"}
              [] OTHER -> {})


RECURSIVE SumSeverity(_)
SumSeverity(ss) == IF ss = <<>> THEN 0 ELSE Head(ss).severity + SumSeverity(Tail(ss))

IsHeavy(c) == c.flow \in {"heavy", "very_heavy"}

\* ---------------------------------------------------- routers/insights.py
\* one appended (score, weight) pair and its factor label ("" when the rule
\* appends no factor); weights are doubled
Ev(sc, w, f) == <<[s |-> sc, w |-> w, f |-> f]>>

RECURSIVE SumSW(_)
SumSW(ev) == IF ev = <<>> THEN 0 ELSE Head(ev).s * Head(ev).w + SumSW(Tail(ev))

RECURSIVE SumW(_)
SumW(ev) == IF ev = <<>> THEN 0 ELSE Head(ev).w + SumW(Tail(ev))

RECURSIVE FactorsOf(_)
FactorsOf(ev) ==
    IF ev = <<>> THEN <<>>
    ELSE (IF Head(ev).f # "" THEN <<Head(ev).f>> ELSE <<>>) \o FactorsOf(Tail(ev))

\* the weighted sum of the evidence, not divided by the total weight
WeightedScoreAsSum(ev) == Round(SumSW(ev), 2)

\* round(np.average(scores, weights=weights), 2)
WeightedScore(ev) == Round(SumSW(ev), SumW(ev))

\* the common tail of the four scorers: weighted average or the baseline
Result(ev, conf) ==
    IF ev # <<>>
    THEN [score |-> WeightedScore(ev), confidence |-> conf, factors |-> FactorsOf(ev)]
    ELSE [score |-> 10, confidence |-> 20, factors |-> <<>>]

\* bmi = weight / (height/100)**2 > k
BmiGT(u, k) == u.weight * 10000 > k * u.height * u.height

HasBmi(u) == u.weight # None /\ u.weight # 0 /\ u.height # None /\ u.height # 0

\* the scores, weights and factors lists calculate_pcos_risk builds
pcos_evidence(u, cs, ss) ==
    LET L == StoredLengths(cs)
        n == Len(L)
        cyc == IF Len(cs) >= 3 /\ L # <<>>
               THEN (IF SumSeq(L) > 35 * n THEN Ev(80, 6, "Long cycle length")
                     ELSE IF SumSeq(L) > 32 * n THEN Ev(50, 6, "Slightly long cycles")
                     ELSE Ev(10, 6, ""))
                    \o (IF StdGT(L, 7) THEN Ev(70, 4, "Irregular cycle pattern") ELSE <<>>)
               ELSE <<>>
        hormonal_symptoms == SelectSeq(ss, LAMBDA x : x.category = "hormonal")
        acne_count == Len(SelectSeq(hormonal_symptoms, LAMBDA x : Contains(x.stype, "acne")))
        hair_issues == Len(SelectSeq(hormonal_symptoms, LAMBDA x : Contains(x.stype, "hair")))
        weight_issues == Len(SelectSeq(hormonal_symptoms, LAMBDA x : Contains(x.stype, "weight")))
        hor == (IF acne_count >= 3 THEN Ev(60, 3, "Persistent acne") ELSE <<>>)
               \o (IF hair_issues >= 2 THEN Ev(50, 3, "Hair-related symptoms") ELSE <<>>)
               \o (IF weight_issues >= 2 THEN Ev(40, 2, "Weight changes") ELSE <<>>)
        bmi == IF HasBmi(u)
               THEN (IF BmiGT(u, 30) THEN Ev(60, 3, "BMI")
                     ELSE IF BmiGT(u, 25) THEN Ev(30, 2, "")
                     ELSE <<>>)
               ELSE <<>>
    IN  cyc \o hor \o bmi

calculate_pcos_risk(u, cs, ss) ==
    Result(pcos_evidence(u, cs, ss), Min(90, 30 + 2 * (Len(cs) + Len(ss))))

\* the scores, weights and factors lists calculate_endometriosis_risk builds
endometriosis_evidence(ss, cs) ==
    LET pain_symptoms == SelectSeq(ss, LAMBDA x : Contains(x.stype, "pain") \/ x.stype = "cramps")
        np == Len(pain_symptoms)
        sev == SumSeverity(pain_symptoms)
        pain == IF np > 0
                THEN (IF sev >= 7 * np THEN Ev(80, 6, "Severe pelvic/menstrual pain")
                      ELSE IF sev >= 5 * np THEN Ev(50, 6, "Moderate pelvic pain")
                      ELSE <<>>)
                     \o (IF np >= 10 THEN Ev(70, 4, "Frequent pain episodes") ELSE <<>>)
                ELSE <<>>
        heavy_cycles == SelectSeq(cs, IsHeavy)
        heavy == IF Len(heavy_cycles) >= 2 THEN Ev(50, 3, "Heavy menstrual bleeding") ELSE <<>>
        fatigue_symptoms == SelectSeq(ss, LAMBDA x : Contains(x.stype, "fatigue"))
        fat == IF Len(fatigue_symptoms) >= 5 THEN Ev(40, 2, "Chronic fatigue") ELSE <<>>
    IN  pain \o heavy \o fat

calculate_endometriosis_risk(ss, cs) ==
    Result(endometriosis_evidence(ss, cs), Round(Min(3400, 1200 + 100 * Len(ss)), 40))

\* the scores, weights and factors lists calculate_anemia_risk builds
anemia_evidence(ss, cs) ==
    LET heavy_cycles == SelectSeq(cs, IsHeavy)
        h == Len(heavy_cycles)
        d == Max(Len(cs), 1)
        heavy == IF h > 0
                 THEN (IF 2 * h > d THEN Ev(70, 6, "Consistently heavy periods")
                       ELSE IF 4 * h > d THEN Ev(40, 4, "Occasional heavy periods")
                       ELSE <<>>)
                 ELSE <<>>
        fatigue_symptoms ==
            SelectSeq(ss, LAMBDA x : Contains(x.stype, "fatigue") \/ Contains(x.stype, "tired"))
        nf == Len(fatigue_symptoms)
        fat == IF nf > 0 /\ SumSeverity(fatigue_symptoms) >= 6 * nf
               THEN Ev(60, 4, "Significant fatigue") ELSE <<>>
        dizziness == SelectSeq(ss, LAMBDA x : Contains(x.stype, "dizz"))
        diz == IF Len(dizziness) >= 2 THEN Ev(50, 3, "Episodes of dizziness") ELSE <<>>
        headaches == SelectSeq(ss, LAMBDA x : Contains(x.stype, "headache"))
        head == IF Len(headaches) >= 5 THEN Ev(30, 2, "Frequent headaches") ELSE <<>>
    IN  heavy \o fat \o diz \o head

calculate_anemia_risk(ss, cs) ==
    Result(anemia_evidence(ss, cs), Round(Min(3400, 1200 + 100 * Len(ss)), 40))

\* the scores, weights and factors lists calculate_thyroid_risk builds
thyroid_evidence(u, ss, cs) ==
    LET weight_symptoms == SelectSeq(ss, LAMBDA x : Contains(x.stype, "weight"))
        wt == IF Len(weight_symptoms) >= 2 THEN Ev(50, 4, "Weight fluctuations") ELSE <<>>
        fatigue == SelectSeq(ss, LAMBDA x : Contains(x.stype, "fatigue"))
        fat == IF Len(fatigue) >= 5 THEN Ev(40, 3, "Persistent fatigue") ELSE <<>>
        mood_symptoms == SelectSeq(ss, LAMBDA x : x.category = "emotional")
        mood == IF Len(mood_symptoms) >= 8 THEN Ev(40, 2, "Mood changes") ELSE <<>>
        L == StoredLengths(cs)
        cyc == IF Len(cs) >= 3 /\ L # <<>> /\ StdGT(L, 10)
               THEN Ev(50, 3, "Very irregular cycles") ELSE <<>>
        hair_symptoms == SelectSeq(ss, LAMBDA x : Contains(x.stype, "hair"))
        hair == IF hair_symptoms # <<>> THEN Ev(40, 2, "Hair changes") ELSE <<>>
    IN  wt \o fat \o mood \o cyc \o hair

calculate_thyroid_risk(u, ss, cs) ==
    Result(thyroid_evidence(u, ss, cs), Min(80, 25 + 2 * Len(ss)))

\* ------------------------------------------------- agent/core.FemCareAgent
\* one "score += inc" step with the factor it appends
Inc(inc, f) == <<[inc |-> inc, f |-> f]>>

RECURSIVE SumInc(_)
SumInc(st) == IF st = <<>> THEN 0 ELSE Head(st).inc + SumInc(Tail(st))

\* factors kept in a list shared between calls instead of a fresh one
RECURSIVE IncFactorsFresh(_)
IncFactorsFresh(st) ==
    IF st = <<>> THEN <<>> ELSE <<Head(st).f>> \o IncFactorsFresh(Tail(st))

IncFactorsShared(st) ==
    (IF resp.op = "agent" THEN resp.thyroid.factors ELSE <<>>) \o IncFactorsFresh(st)

RECURSIVE IncFactors(_)
IncFactors(st) == IF st = <<>> THEN <<>> ELSE <<Head(st).f>> \o IncFactors(Tail(st))

AgentResult(st, conf) ==
    [score |-> Min(95, 10 + SumInc(st)), confidence |-> conf, factors |-> IncFactors(st)]

\* the score increments and factors of _calculate_pcos_risk
agent_pcos_steps(u, cs, ss) ==
    LET L == LengthsUpTo(sorted(cs), Len(cs))
        n == Len(L)
        cyc == IF Len(cs) >= 3 /\ L # <<>>
               THEN (IF SumSeq(L) > 35 * n THEN Inc(25, "Long cycles") ELSE <<>>)
                    \o (IF StdGT(L, 7) THEN Inc(15, "Irregular cycles") ELSE <<>>)
               ELSE <<>>
        hormonal == SelectSeq(ss, LAMBDA x : x.category = "hormonal")
        hor == IF Len(hormonal) >= 3 THEN Inc(20, "Hormonal symptoms") ELSE <<>>
        bmi == IF HasBmi(u) /\ BmiGT(u, 30) THEN Inc(15, "BMI > 30") ELSE <<>>
    IN  cyc \o hor \o bmi

agent_calculate_pcos_risk(u, cs, ss) ==
    AgentResult(agent_pcos_steps(u, cs, ss), IF Len(cs) >= 6 THEN 70 ELSE 50)

\* the score increments and factors of _calculate_endo_risk
agent_endo_steps(ss, cs) ==
    LET pain == SelectSeq(ss, LAMBDA x : Contains(x.stype, "pain"))
        sev == IF pain # <<>> /\ SumSeverity(pain) >= 7 * Len(pain)
               THEN Inc(30, "Severe pain") ELSE <<>>
        heavy_flow == SelectSeq(cs, IsHeavy)
        heavy == IF Len(heavy_flow) >= 2 THEN Inc(15, "Heavy bleeding") ELSE <<>>
    IN  sev \o heavy

agent_calculate_endo_risk(ss, cs) ==
    AgentResult(agent_endo_steps(ss, cs), 60)

\* the score increments and factors of _calculate_anemia_risk
agent_anemia_steps(ss, cs) ==
    LET fatigue == SelectSeq(ss, LAMBDA x : Contains(x.stype, "fatigue"))
        fat == IF Len(fatigue) >= 3 THEN Inc(20, "Frequent fatigue") ELSE <<>>
        heavy_flow == SelectSeq(cs, IsHeavy)
        heavy == IF heavy_flow # <<>> /\ 2 * Len(heavy_flow) > Max(Len(cs), 1)
                 THEN Inc(25, "Heavy periods") ELSE <<>>
    IN  fat \o heavy

agent_calculate_anemia_risk(ss, cs) ==
    AgentResult(agent_anemia_steps(ss, cs), 60)

\* the score increments and factors of _calculate_thyroid_risk
agent_thyroid_steps(u, ss) ==
    LET weight == SelectSeq(ss, LAMBDA x : Contains(x.stype, "weight"))
        wt == IF Len(weight) >= 2 THEN Inc(15, "Weight changes") ELSE <<>>
        fatigue == SelectSeq(ss, LAMBDA x : Contains(x.stype, "fatigue"))
        mood == SelectSeq(ss, LAMBDA x : x.category = "emotional")
        fm == IF Len(fatigue) >= 3 /\ Len(mood) >= 3
              THEN Inc(20, "Fatigue + mood changes") ELSE <<>>
    IN  wt \o fm

agent_calculate_thyroid_risk(u, ss) ==
    AgentResult(agent_thyroid_steps(u, ss), 50)

\* a stored row / CycleData value
\* users.id of the user the single-user harnesses run for, and the ids of
\* the two users of the harness with two accounts
TheUser == 1
Users == {1, 2}

Row(id, start, flow, len) ==
    [id |-> id, user_id |-> TheUser, start |-> start, flow |-> flow,
     cycle_length |-> len,
     predicted_next_start |-> None, prediction_confidence |-> None]

\* .filter(user_id == current_user.id)
OfUser(rows, current_user) == SelectSeq(rows, LAMBDA r : r.user_id = current_user)

\* the integer primary key given to the next inserted row
NextId(rows) ==
    IF rows = <<>> THEN 1
    ELSE 1 + (CHOOSE m \in {rows[i].id : i \in 1..Len(rows)} :
                 \A i \in 1..Len(rows) : rows[i].id <= m)

\* ======================================================= cycle endpoints
\* the phase ladder of get_current_cycle (lines 192-203)
CurrentPhase(cycle_day) ==
    IF cycle_day <= 5 THEN "menstrual"
    ELSE IF cycle_day <= 13 THEN "follicular"
    ELSE IF cycle_day <= 16 THEN "ovulation"
    ELSE "luteal"

\* the body of get_current_cycle for user u with rows cs on day now
get_current_cycle(u, cs, now) ==
    IF cs = <<>> THEN [op |-> "get_current_cycle", status |-> 200, has_data |-> FALSE]
    ELSE
    LET latest_cycle == LatestCycle(cs)
        cycle_day == (now - latest_cycle.start) + 1
        avg == AvgCycle(cs)
        days_until_period ==
            IF latest_cycle.predicted_next_start # None
            THEN latest_cycle.predicted_next_start - now
            ELSE Round(avg.num - cycle_day * avg.den, avg.den)
        ovulation_day == Round(avg.num - 14 * avg.den, avg.den)
        fertile_window_start == latest_cycle.start + (ovulation_day - 5)
        fertile_window_end == latest_cycle.start + (ovulation_day + 1)
    IN  [op |-> "get_current_cycle", status |-> 200, has_data |-> TRUE,
         cycle_day |-> cycle_day,
         phase |-> CurrentPhase(cycle_day),
         days_until_period |-> Max(0, days_until_period),
         predicted_next_start |-> latest_cycle.predicted_next_start,
         prediction_confidence |-> latest_cycle.prediction_confidence,
         average_cycle_length |-> Round(10 * avg.num, avg.den),
         is_fertile_window |-> (fertile_window_start <= now /\ now <= fertile_window_end),
         fertile_window |-> IF ~u.is_on_birth_control
                            THEN <<fertile_window_start, fertile_window_end>>
                            ELSE NoWindow]

\* the body of get_cycle_prediction; requests carry no end_date, so
\* period_lengths is empty and avg_period is 5
get_cycle_prediction(u, cs, now) ==
    LET ordered == OrderByStartDesc(cs)
    IN  IF Len(ordered) < 2
        THEN [op |-> "get_cycle_prediction", status |-> 400,
              detail |-> "Need at least 2 cycles to make predictions"]
        ELSE
        LET p == predict_next_cycle(ordered, now)
            avg == AvgCycle(ordered)
            ovulation_day == Round(avg.num - 14 * avg.den, avg.den)
            ovulation_date == p.date - Round(avg.num - ovulation_day * avg.den, avg.den)
            fertile_start == ovulation_date - 5
            fertile_end == ovulation_date + 1
        IN  [op |-> "get_cycle_prediction", status |-> 200,
             next_period_start |-> p.date,
             next_period_end |-> p.date + 5,
             next_ovulation |-> IF ~u.is_on_birth_control THEN ovulation_date ELSE None,
             fertile_window_start |-> IF ~u.is_on_birth_control THEN fertile_start ELSE None,
             fertile_window_end |-> IF ~u.is_on_birth_control THEN fertile_end ELSE None,
             confidence |-> p.confidence,
             average_cycle_length |-> Round(10 * avg.num, avg.den)]

\* the body of get_fertility_window (calendar and texts left out)
get_fertility_window(u, cs, now) ==
    IF u.is_on_birth_control
    THEN [op |-> "get_fertility_window", status |-> 200, enabled |-> FALSE]
    ELSE IF Len(cs) < 1
    THEN [op |-> "get_fertility_window", status |-> 200, enabled |-> TRUE,
          has_data |-> FALSE]
    ELSE
    LET ordered == OrderByStartDesc(cs)
        latest_cycle == ordered[1]
        cycle_day == (now - latest_cycle.start) + 1
        avg == AvgCycle(ordered)
        ovulation_day == Round(avg.num - 14 * avg.den, avg.den)
        ovulation_date == latest_cycle.start + ovulation_day
        fertile_start == ovulation_date - 5
        fertile_end == ovulation_date + 1
        predicted_period ==
            IF latest_cycle.predicted_next_start # None
            THEN latest_cycle.predicted_next_start
            ELSE latest_cycle.start + Round(avg.num, avg.den)
    IN  [op |-> "get_fertility_window", status |-> 200, enabled |-> TRUE,
         has_data |-> TRUE,
         cycle_day |-> cycle_day,
         fertility_status |-> IF now < fertile_start THEN "low"
                              ELSE IF now <= fertile_end
                              THEN (IF now = ovulation_date THEN "peak"
                                    ELSE IF now >= ovulation_date - 1 THEN "high"
                                    ELSE "fertile")
                              ELSE "low",
         ovulation |-> [predicted_date |-> ovulation_date, cycle_day |-> ovulation_day],
         fertile_window |-> [start |-> fertile_start, end |-> fertile_end,
                             is_in_window |-> (fertile_start <= now /\ now <= fertile_end)],
         next_period |-> predicted_period]

\* round(max(0, min(1, 1 - std/avg)), 2) in hundredths: the largest k with
\* 200 * std <= (201 - 2k) * avg, std = sqrt(V)/n and avg = S/n
PatternRegularity(L) ==
    LET V == IF Len(L) > 1 THEN VarNum(L) ELSE 0
        S == SumSeq(L)
        Reached(k) == 201 - 2 * k >= 0 /\ 40000 * V <= (201 - 2 * k) * (201 - 2 * k) * S * S
    IN  IF ~Reached(0) THEN 0
        ELSE CHOOSE k \in 0..100 : Reached(k) /\ (k = 100 \/ ~Reached(k + 1))

\* the body of get_cycle_patterns (symptom counts left out)
get_cycle_patterns(cs) ==
    LET ordered == sorted(cs)
    IN  IF ordered = <<>>
        THEN [op |-> "get_cycle_patterns", status |-> 400,
              detail |-> "No cycle data available"]
        ELSE
        LET cycle_lengths == StoredLengths(ordered)
            avg == AvgCycle(ordered)
        IN  [op |-> "get_cycle_patterns", status |-> 200,
             average_cycle_length |-> Round(10 * avg.num, avg.den),
             is_regular |-> IF cycle_lengths # <<>>
                            THEN /\ ~(Len(cycle_lengths) > 1 /\ ~(VarNum(cycle_lengths)
                                        < 49 * Len(cycle_lengths) * Len(cycle_lengths)))
                                 /\ \A i \in 1..Len(cycle_lengths) :
                                      21 <= cycle_lengths[i] /\ cycle_lengths[i] <= 35
                            ELSE FALSE,
             regularity_score |-> IF cycle_lengths # <<>>
                                  THEN PatternRegularity(cycle_lengths) ELSE 100,
             total_cycles_tracked |-> Len(ordered),
             longest_cycle |-> IF cycle_lengths # <<>> THEN MaxSeq(cycle_lengths) ELSE 0,
             shortest_cycle |-> IF cycle_lengths # <<>> THEN MinSeq(cycle_lengths) ELSE 0]

\* ------------------------------------------------------- state machine
DateChoices == {0, 10, 28, 56}
FlowChoices == {"medium"}

Init ==
    /\ user \in {[is_on_birth_control |-> b, weight |-> None, height |-> None] :
                    b \in BOOLEAN}
    /\ cycles = <<>>
    /\ symptoms = <<>>
    /\ today = 60
    /\ resp = [op |-> "none"]
    /\ prev = [op |-> "none"]
    /\ risk_scores = <<>>
    /\ clock = 0
    /\ sessions = NoSessions
    /\ base = <<>>

\* the rows .order_by(desc(start_date)).first() can return for the lookup
\* of the previous cycle: rows of the user strictly before start_date with
\* the latest start_date
PreviousCandidates(cs, current_user, start_date) ==
    {i \in 1..Len(cs) :
        /\ cs[i].user_id = current_user
        /\ cs[i].start < start_date
        /\ \A j \in 1..Len(cs) :
             (cs[j].user_id = current_user /\ cs[j].start < start_date)
                => cs[j].start <= cs[i].start}

\* the cycle_entries tables create_cycle can leave behind, the new row
\* last: insert, backfill the previous row's cycle_length, store the
\* prediction on the new row
create_cycle_outcomes(cs, current_user, start_date, flow_level, now) ==
    LET new_cycle == [Row(NextId(cs), start_date, flow_level, None)
                         EXCEPT !.user_id = current_user]
        inserted == Append(cs, new_cycle)
        cands == PreviousCandidates(inserted, current_user, start_date)
        outcome(pc) ==
            LET updated == IF pc = 0 THEN inserted
                           ELSE [inserted EXCEPT ![pc].cycle_length =
                                   calculate_cycle_length(inserted[pc].start, start_date)]
                p == predict_next_cycle(OfUser(updated, current_user), now)
            IN  [updated EXCEPT
                    ![Len(updated)].predicted_next_start = p.date,
                    ![Len(updated)].prediction_confidence = p.confidence]
    IN  {outcome(pc) : pc \in (IF cands = {} THEN {0} ELSE cands)}

\* POST /api/cycles (the logging streak is not part of the state)
create_cycle(current_user, start_date, flow_level) ==
    /\ Len(cycles) < MaxRows
    /\ NextId(cycles) <= MaxCycleId
    /\ \E final \in create_cycle_outcomes(cycles, current_user, start_date,
                                          flow_level, today) :
         /\ cycles' = final
         /\ resp' = [op |-> "create_cycle", status |-> 201,
                     row |-> final[Len(final)]]
    /\ UNCHANGED <<user, symptoms, today, prev, risk_scores, clock, sessions, base>>

\* PUT /api/auth/profile with is_on_birth_control set
update_profile(b) ==
    /\ user' = [user EXCEPT !.is_on_birth_control = b]
    /\ resp' = [op |-> "update_profile", status |-> 200]
    /\ UNCHANGED <<cycles, symptoms, today, prev, risk_scores, clock, sessions, base>>

GetCurrentCycle ==
    /\ resp' = get_current_cycle(user, cycles, today)
    /\ UNCHANGED <<user, cycles, symptoms, today, prev, risk_scores, clock, sessions, base>>

GetCyclePrediction ==
    /\ resp' = get_cycle_prediction(user, cycles, today)
    /\ UNCHANGED <<user, cycles, symptoms, today, prev, risk_scores, clock, sessions, base>>

GetFertilityWindow ==
    /\ resp' = get_fertility_window(user, cycles, today)
    /\ UNCHANGED <<user, cycles, symptoms, today, prev, risk_scores, clock, sessions, base>>

GetCyclePatterns ==
    /\ resp' = get_cycle_patterns(cycles)
    /\ UNCHANGED <<user, cycles, symptoms, today, prev, risk_scores, clock, sessions, base>>

\* FemCareAgent._gather_context for a cycle query: the analyzer runs on
\* observation.cycles when there are any, whatever user_context says
gather_context ==
    /\ cycles # <<>>
    /\ resp' = [op |-> "cycle_analysis", status |-> 200,
                out |-> analyze(cycles, today)]
    /\ UNCHANGED <<user, cycles, symptoms, today, prev, risk_scores, clock, sessions, base>>

\* the calendar moves on
Tick ==
    /\ today + 14 <= MaxToday
    /\ today' = today + 14
    /\ UNCHANGED <<user, cycles, symptoms, resp, prev, risk_scores, clock, sessions, base>>

Next ==
    \/ \E d \in DateChoices, f \in FlowChoices : create_cycle(TheUser, d, f)
    \/ \E b \in BOOLEAN : update_profile(b)
    \/ GetCurrentCycle
    \/ GetCyclePrediction
    \/ GetFertilityWindow
    \/ GetCyclePatterns
    \/ gather_context
    \/ Tick

Spec == Init /\ [][Next]_vars

\* ================================================================ inputs
\* start dates 0, g1, g1+g2, ... of records logged in chronological order,
\* each row caching the distance to the next one (None on the last)
RECURSIVE StartOf(_, _)
StartOf(gaps, i) == IF i = 1 THEN 0 ELSE StartOf(gaps, i - 1) + gaps[i - 1]

RowsFromGaps(n, gaps, heavy) ==
    [i \in 1..n |->
        Row(i, StartOf(gaps, i),
            IF i <= heavy THEN "heavy" ELSE "medium",
            IF i < n THEN gaps[i] ELSE None)]

NoUser == [is_on_birth_control |-> FALSE, weight |-> None, height |-> None]

\* ====================================================== analyzer harness
\* inter-onset distances used for the analyzer inputs: both sides of the
\* [15, 60] filter and of the [21, 35] normal range
GapChoices == {14, 15, 21, 35, 60, 61}
TodayOffsets == {3, 40}

InitAnalyzer ==
    /\ user = NoUser
    /\ symptoms = <<>>
    /\ resp = [op |-> "none"]
    /\ prev = [op |-> "none"]
    /\ risk_scores = <<>>
    /\ clock = 0
    /\ sessions = NoSessions
    /\ base = <<>>
    /\ \E n \in 0..MaxCycles :
         \E gaps \in [1..(IF n = 0 THEN 0 ELSE n - 1) -> GapChoices] :
           \E rev \in BOOLEAN, off \in TodayOffsets :
             /\ cycles = IF rev THEN Reverse(RowsFromGaps(n, gaps, 0))
                         ELSE RowsFromGaps(n, gaps, 0)
             /\ today = (IF n = 0 THEN 0 ELSE StartOf(gaps, n)) + off

\* cycle_analyzer.analyze(cycles)
Analyze ==
    /\ resp' = [op |-> "analyze", out |-> analyze(cycles, today)]
    /\ UNCHANGED <<user, cycles, symptoms, today, prev, risk_scores, clock, sessions, base>>

\* predict_next_cycle(cycles); lengths is the local list cycle_lengths when
\* the function gets past its first return
PredictNextCycle ==
    /\ resp' = IF Len(cycles) < 2
               THEN [op |-> "predict_next_cycle",
                     out |-> predict_next_cycle(cycles, today)]
               ELSE [op |-> "predict_next_cycle",
                     out |-> predict_next_cycle(cycles, today),
                     lengths |-> RouterLengthsUpTo(sorted(cycles), Len(cycles))]
    /\ UNCHANGED <<user, cycles, symptoms, today, prev, risk_scores, clock, sessions, base>>

\* CycleAnalyzer._calculate_cycle_lengths(sorted_cycles)
CalculateCycleLengths ==
    /\ cycles # <<>>
    /\ resp' = [op |-> "_calculate_cycle_lengths",
                lengths |-> calculate_cycle_lengths(sorted(cycles))]
    /\ UNCHANGED <<user, cycles, symptoms, today, prev, risk_scores, clock, sessions, base>>

\* CycleAnalyzer._assess_regularity on the lengths analyze derives
AssessRegularity ==
    /\ cycles # <<>>
    /\ calculate_cycle_lengths(sorted(cycles)) # <<>>
    /\ resp' = [op |-> "_assess_regularity",
                lengths |-> calculate_cycle_lengths(sorted(cycles)),
                out |-> assess_regularity(calculate_cycle_lengths(sorted(cycles)))]
    /\ UNCHANGED <<user, cycles, symptoms, today, prev, risk_scores, clock, sessions, base>>

\* CycleAnalyzer._predict_next_cycle(sorted_cycles, lengths)
AnalyzerPredict ==
    /\ cycles # <<>>
    /\ resp' = [op |-> "_predict_next_cycle",
                out |-> analyzer_predict_next_cycle(sorted(cycles),
                            calculate_cycle_lengths(sorted(cycles)))]
    /\ UNCHANGED <<user, cycles, symptoms, today, prev, risk_scores, clock, sessions, base>>

NextAnalyzer ==
    \/ Analyze
    \/ PredictNextCycle
    \/ CalculateCycleLengths
    \/ AssessRegularity
    \/ AnalyzerPredict

SpecAnalyzer == InitAnalyzer /\ [][NextAnalyzer]_vars

\* ---------------------------------------------- long histories harness
\* histories made of two runs of equal distances, a repeated p times and
\* then b repeated q times, up to 21 distances
RunGapChoices == {21, 28, 35, 36, 40, 45, 60}
RunLengths == {0, 1, 2, 5, 16}
ShortRunLengths == {0, 1, 2, 5}

InitRegularity ==
    /\ user = NoUser
    /\ symptoms = <<>>
    /\ resp = [op |-> "none"]
    /\ prev = [op |-> "none"]
    /\ risk_scores = <<>>
    /\ clock = 0
    /\ sessions = NoSessions
    /\ base = <<>>
    /\ \E a \in RunGapChoices, b \in RunGapChoices :
         \E p \in RunLengths, q \in ShortRunLengths :
           LET gaps == [i \in 1..(p + q) |-> IF i <= p THEN a ELSE b]
           IN  /\ cycles = RowsFromGaps(p + q + 1, gaps, 0)
               /\ today = StartOf(gaps, p + q + 1) + 3

NextRegularity == AssessRegularity \/ Analyze \/ PredictNextCycle \/ AnalyzerPredict

SpecRegularity == InitRegularity /\ [][NextRegularity]_vars

\* ================================================== risk scoring harness
\* symptom inputs are built from runs of identical log entries
\* <<symptom_type, severity, count>>: each run sits on one side of a
\* count or mean-severity threshold of the scorers
GroupChoices ==
    << <<"acne", 5, 3>>, <<"cramps", 7, 1>>, <<"dizziness", 5, 2>>,
       <<"fatigue", 5, 5>>, <<"fatigue", 6, 1>>, <<"hair_loss", 5, 2>>,
       <<"headache", 5, 5>>, <<"mood_swings", 5, 8>>, <<"oily_skin", 5, 3>>,
       <<"pelvic_pain", 4, 10>>, <<"pelvic_pain", 7, 1>>,
       <<"weight_changes", 5, 2>> >>

\* the Symptom rows create_symptom stores for one run
Expand(g) ==
    [i \in 1..g[3] |->
        [stype |-> g[1], category |-> classify_symptom(g[1]), severity |-> g[2]]]

RECURSIVE ExpandAll(_, _)
ExpandAll(idx, k) ==
    IF k = 0 THEN <<>>
    ELSE ExpandAll(idx, k - 1) \o Expand(GroupChoices[idx[k]])

RiskGapChoices == {28, 38, 62}

\* weight (kg) and height (cm): no data, BMI 27.3, BMI 32.0
ProfileChoices ==
    {[is_on_birth_control |-> FALSE, weight |-> None, height |-> None],
     [is_on_birth_control |-> FALSE, weight |-> 70, height |-> 160],
     [is_on_birth_control |-> FALSE, weight |-> 82, height |-> 160]}

InitRisk ==
    /\ today = 0
    /\ resp = [op |-> "none"]
    /\ prev = [op |-> "none"]
    /\ risk_scores = <<>>
    /\ clock = 0
    /\ sessions = NoSessions
    /\ base = <<>>
    /\ user \in ProfileChoices
    /\ \E n \in 0..MaxRiskCycles :
         \E gaps \in [1..(IF n = 0 THEN 0 ELSE n - 1) -> RiskGapChoices] :
           \E heavy \in {0, 1, n} \cap 0..n :
             /\ \A i \in 1..(n - 2) : gaps[i] <= gaps[i + 1]
             /\ cycles = RowsFromGaps(n, gaps, heavy)
    /\ \E k \in 0..MaxGroups :
         \E idx \in [1..k -> 1..Len(GroupChoices)] :
           /\ \A i \in 1..(k - 1) : idx[i] <= idx[i + 1]
           /\ symptoms = ExpandAll(idx, k)

\* get_risk_assessment, lines 300-303: the four scorers of routers/insights
RiskResults(u, cs, ss) ==
    [op |-> "insights",
     pcos |-> calculate_pcos_risk(u, cs, ss),
     endometriosis |-> calculate_endometriosis_risk(ss, cs),
     anemia |-> calculate_anemia_risk(ss, cs),
     thyroid |-> calculate_thyroid_risk(u, ss, cs)]

InsightsResults == RiskResults(user, cycles, symptoms)

\* FemCareAgent._calculate_all_risks(user_context, observation)
AgentResults ==
    [op |-> "agent",
     pcos |-> agent_calculate_pcos_risk(user, cycles, symptoms),
     endometriosis |-> agent_calculate_endo_risk(symptoms, cycles),
     anemia |-> agent_calculate_anemia_risk(symptoms, cycles),
     thyroid |-> agent_calculate_thyroid_risk(user, symptoms)]

AssessInsights ==
    /\ resp' = InsightsResults
    /\ UNCHANGED <<user, cycles, symptoms, today, prev, risk_scores, clock, sessions, base>>

calculate_all_risks ==
    /\ resp' = AgentResults
    /\ UNCHANGED <<user, cycles, symptoms, today, prev, risk_scores, clock, sessions, base>>

NextRisk == AssessInsights \/ calculate_all_risks

SpecRisk == InitRisk /\ [][NextRisk]_vars

Conditions == {"pcos", "endometriosis", "anemia", "thyroid"}

\* C1: every risk scorer returns a score in [0.1, 0.95] and a confidence
\* in [0, 1] strictly below 1.0.
C1_ScoreAndConfidenceBounds ==
    resp.op \in {"insights", "agent"} =>
        \A c \in Conditions :
            /\ 10 <= resp[c].score /\ resp[c].score <= 95
            /\ 0 <= resp[c].confidence /\ resp[c].confidence < 100

\* evidence from cycles, symptoms and BMI combined in one weighted score
C1_Witness ==
    /\ resp.op = "insights"
    /\ Len(resp.pcos.factors) >= 3
    /\ resp.pcos.score > 50
    /\ resp.endometriosis.score = 80
    /\ resp.pcos.confidence > 50

\* ----------------------------------------------- repeated scorer calls
\* the same harness keeping the result of the call before the last one
InitRepeat ==
    /\ today = 0
    /\ resp = [op |-> "none"]
    /\ prev = [op |-> "none"]
    /\ risk_scores = <<>>
    /\ clock = 0
    /\ sessions = NoSessions
    /\ base = <<>>
    /\ user \in ProfileChoices
    /\ \E n \in 0..MaxRepeatCycles :
         \E gaps \in [1..(IF n = 0 THEN 0 ELSE n - 1) -> RiskGapChoices] :
           \E heavy \in 0..n, rev \in BOOLEAN :
             cycles = IF rev THEN Reverse(RowsFromGaps(n, gaps, heavy))
                      ELSE RowsFromGaps(n, gaps, heavy)
    /\ \E k \in 0..MaxRepeatGroups :
         \E idx \in [1..k -> 1..Len(GroupChoices)] :
           symptoms = ExpandAll(idx, k)

AssessInsightsAgain ==
    /\ resp' = InsightsResults
    /\ prev' = resp
    /\ UNCHANGED <<user, cycles, symptoms, today, risk_scores, clock, sessions, base>>

calculate_all_risks_again ==
    /\ resp' = AgentResults
    /\ prev' = resp
    /\ UNCHANGED <<user, cycles, symptoms, today, risk_scores, clock, sessions, base>>

NextRepeat == AssessInsightsAgain \/ calculate_all_risks_again

SpecRepeat == InitRepeat /\ [][NextRepeat]_vars

\* -------------------------------------- repeated predictions over time
\* the predictors called again on the same records while the date moves on
InitPredictAgain ==
    /\ user = NoUser
    /\ symptoms = <<>>
    /\ resp = [op |-> "none"]
    /\ prev = [op |-> "none"]
    /\ risk_scores = <<>>
    /\ clock = 0
    /\ sessions = NoSessions
    /\ base = <<>>
    /\ today = 0
    /\ \E n \in 0..MaxRepeatCycles :
         \E gaps \in [1..(IF n = 0 THEN 0 ELSE n - 1) -> GapChoices] :
           cycles = RowsFromGaps(n, gaps, 0)

\* predict_next_cycle(cycles) called once more
PredictNextCycleAgain ==
    /\ resp' = [op |-> "predict_next_cycle",
                out |-> predict_next_cycle(cycles, today)]
    /\ prev' = resp
    /\ UNCHANGED <<user, cycles, symptoms, today, risk_scores, clock, sessions, base>>

\* CycleAnalyzer._predict_next_cycle(sorted_cycles, lengths) called once more
AnalyzerPredictAgain ==
    /\ cycles # <<>>
    /\ resp' = [op |-> "_predict_next_cycle",
                out |-> [date |-> analyzer_predict_next_cycle(sorted(cycles),
                                      calculate_cycle_lengths(sorted(cycles))).date,
                         confidence |-> analyzer_predict_next_cycle(sorted(cycles),
                                      calculate_cycle_lengths(sorted(cycles))).confidence]]
    /\ prev' = resp
    /\ UNCHANGED <<user, cycles, symptoms, today, risk_scores, clock, sessions, base>>

NextPredictAgain == PredictNextCycleAgain \/ AnalyzerPredictAgain \/ Tick

SpecPredictAgain == InitPredictAgain /\ [][NextPredictAgain]_vars

\* ================================== stored risk scores and their trend
\* get_risk_assessment stores one RiskScore row per condition and call;
\* calculated_at is the database's CURRENT_TIMESTAMP, whole seconds
MaxAssessments == 3
MaxClock == 1
MaxLogged == 2

ConditionOrder == <<"pcos", "endometriosis", "anemia", "thyroid">>

NoTrend == "none"

\* the scores p (hundredths) for which the double subtraction
\* (p + 10)/100 - p/100 gives more than the double 0.1
TenthExceeded ==
    {18, 24, 29, 30, 35, 36, 41, 42, 43, 44, 45, 46, 57, 58, 69, 70, 71, 82, 83}

\* the exact comparison against the dead band of one tenth
trend_of_exact(score, previous_score) ==
    IF previous_score = None THEN NoTrend
    ELSE IF score - previous_score < -10 THEN "improving"
    ELSE IF score - previous_score > 10 THEN "worsening"
    ELSE "stable"

\* diff = result["score"] - previous_score on doubles, then
\* diff < -0.1, diff > 0.1
trend_of(score, previous_score) ==
    IF previous_score = None THEN NoTrend
    ELSE LET diff == score - previous_score
         IN  IF diff < -10 \/ (diff = -10 /\ score \in TenthExceeded)
             THEN "improving"
             ELSE IF diff > 10 \/ (diff = 10 /\ previous_score \in TenthExceeded)
             THEN "worsening"
             ELSE "stable"

\* the rows .order_by(desc(calculated_at)).first() can return: 0 for no
\* row, otherwise any row of the condition carrying the latest timestamp
PreviousRows(rs, current_user, condition) ==
    LET I == {i \in 1..Len(rs) :
                 rs[i].user_id = current_user /\ rs[i].condition_type = condition}
    IN  IF I = {} THEN {0}
        ELSE {i \in I : \A j \in I : rs[j].calculated_at <= rs[i].calculated_at}

RiskScoreRow(rs, current_user, condition, result, previous, now) ==
    LET previous_score == IF previous = 0 THEN None ELSE rs[previous].score
    IN  [user_id |-> current_user,
         condition_type |-> condition,
         score |-> result.score,
         confidence |-> result.confidence,
         contributing_factors |-> result.factors,
         previous_score |-> previous_score,
         trend |-> trend_of(result.score, previous_score),
         calculated_at |-> now]

\* the users row of the second account, which no modelled request updates
OtherUser == [is_on_birth_control |-> FALSE, weight |-> 82, height |-> 160]

\* current_user as get_current_user loads it
UserRow(current_user) == IF current_user = TheUser THEN user ELSE OtherUser

\* the inputs of the scorers: the user's cycles ordered by start_date and
\* the user's symptoms of the last 180 days
AssessedCycles(current_user) == sorted(OfUser(cycles, current_user))

AssessedSymptoms(current_user) ==
    SelectSeq(OfUser(symptoms, current_user), LAMBDA s : s.date >= today - 180)

\* GET /api/insights/risks
get_risk_assessment(current_user) ==
    /\ Len(risk_scores) + 4 <= 4 * MaxAssessments
    /\ \E p1 \in PreviousRows(risk_scores, current_user, ConditionOrder[1]),
          p2 \in PreviousRows(risk_scores, current_user, ConditionOrder[2]),
          p3 \in PreviousRows(risk_scores, current_user, ConditionOrder[3]),
          p4 \in PreviousRows(risk_scores, current_user, ConditionOrder[4]) :
         LET results == RiskResults(UserRow(current_user),
                                    AssessedCycles(current_user),
                                    AssessedSymptoms(current_user))
             previous == <<p1, p2, p3, p4>>
         IN  /\ risk_scores' = risk_scores \o
                   [k \in 1..4 |->
                       RiskScoreRow(risk_scores, current_user, ConditionOrder[k],
                                    results[ConditionOrder[k]], previous[k], clock)]
             /\ resp' = [op |-> "get_risk_assessment",
                         current_user |-> current_user,
                         pcos |-> results.pcos,
                         endometriosis |-> results.endometriosis,
                         anemia |-> results.anemia,
                         thyroid |-> results.thyroid]
    /\ UNCHANGED <<user, cycles, symptoms, today, prev, clock, sessions, base>>

TrendSymptomChoices == {"weight_changes"}

\* the rows .order_by(desc(start_date)).first() can return for the lookup
\* of the current cycle: rows of the user starting on or before the
\* symptom date with the latest start_date
CurrentCycleCandidates(cs, current_user, date) ==
    {i \in 1..Len(cs) :
        /\ cs[i].user_id = current_user
        /\ cs[i].start <= date
        /\ \A j \in 1..Len(cs) :
             (cs[j].user_id = current_user /\ cs[j].start <= date)
                => cs[j].start <= cs[i].start}

\* the cycle_id create_symptom stores when the lookup returned row i of
\* the cycle table (0: no row)
LinkedCycle(cs, i, date) ==
    IF i = 0 THEN None
    ELSE LET max_date == IF cs[i].cycle_length # None /\ cs[i].cycle_length # 0
                         THEN cs[i].start + cs[i].cycle_length
                         ELSE cs[i].start + 45
         IN  IF date <= max_date THEN cs[i].id ELSE None

\* POST /api/symptoms; cycle_id is the optional field of the request, taken
\* as sent. The streak and achievement rows the handler also writes are
\* not read by any scorer.
create_symptom(current_user, date, symptom_type, severity, cycle_id) ==
    /\ Len(symptoms) < MaxLogged
    /\ LET cands == CurrentCycleCandidates(cycles, current_user, date)
       IN  \E i \in (IF cycle_id # None THEN {0}
                     ELSE IF cands = {} THEN {0} ELSE cands) :
             LET new_symptom ==
                     [user_id |-> current_user,
                      cycle_id |-> IF cycle_id # None THEN cycle_id
                                   ELSE LinkedCycle(cycles, i, date),
                      date |-> date,
                      stype |-> symptom_type,
                      category |-> classify_symptom(symptom_type),
                      severity |-> severity]
             IN  /\ symptoms' = Append(symptoms, new_symptom)
                 /\ resp' = [op |-> "create_symptom", status |-> 201,
                             row |-> new_symptom]
    /\ UNCHANGED <<user, cycles, today, prev, risk_scores, clock, sessions, base>>

\* DELETE /api/symptoms/{symptom_id}
delete_symptom(i) ==
    /\ i \in 1..Len(symptoms)
    /\ symptoms' = [k \in 1..(Len(symptoms) - 1) |->
                       IF k < i THEN symptoms[k] ELSE symptoms[k + 1]]
    /\ resp' = [op |-> "delete_symptom", status |-> 204]
    /\ UNCHANGED <<user, cycles, today, prev, risk_scores, clock, sessions, base>>

\* weight (kg) at 160 cm: BMI 23.4 and BMI 27.3
WeightChoices == {60, 70}

\* PUT /api/auth/profile with weight set
update_profile_weight(w) ==
    /\ user.weight # w
    /\ user' = [user EXCEPT !.weight = w]
    /\ resp' = [op |-> "update_profile", status |-> 200]
    /\ UNCHANGED <<cycles, symptoms, today, prev, risk_scores, clock, sessions, base>>

\* a second of wall-clock time passes
ClockTick ==
    /\ clock < MaxClock
    /\ clock' = clock + 1
    /\ UNCHANGED <<user, cycles, symptoms, today, resp, prev, risk_scores,
                   sessions, base>>

InitTrend ==
    /\ today = 0
    /\ resp = [op |-> "none"]
    /\ prev = [op |-> "none"]
    /\ risk_scores = <<>>
    /\ clock = 0
    /\ sessions = NoSessions
    /\ base = <<>>
    /\ user = [is_on_birth_control |-> FALSE, weight |-> 70, height |-> 160]
    /\ cycles = <<>>
    /\ symptoms = <<>>

NextTrend ==
    \/ get_risk_assessment(TheUser)
    \/ \E t \in TrendSymptomChoices : create_symptom(TheUser, today, t, 5, None)
    \/ \E i \in 1..MaxLogged : delete_symptom(i)
    \/ \E w \in WeightChoices : update_profile_weight(w)
    \/ ClockTick

SpecTrend == InitTrend /\ [][NextTrend]_vars

\* ============================================ the tables of two accounts
\* DELETE /api/cycles/{cycle_id}: db.delete(cycle) also deletes the rows of
\* CycleEntry.symptoms (cascade "all, delete-orphan"), the symptoms whose
\* cycle_id is the deleted id
delete_cycle(current_user, cycle_id) ==
    LET found == {i \in 1..Len(cycles) :
                     cycles[i].id = cycle_id /\ cycles[i].user_id = current_user}
    IN  IF found = {}
        THEN /\ resp' = [op |-> "delete_cycle", status |-> 404,
                         current_user |-> current_user]
             /\ UNCHANGED <<user, cycles, symptoms, today, prev, risk_scores, clock, sessions, base>>
        ELSE /\ cycles' = SelectSeq(cycles, LAMBDA c : c.id # cycle_id)
             /\ symptoms' = SelectSeq(symptoms, LAMBDA s : s.cycle_id # cycle_id)
             /\ resp' = [op |-> "delete_cycle", status |-> 204,
                         current_user |-> current_user,
                         row |-> cycles[CHOOSE i \in found : TRUE]]
             /\ UNCHANGED <<user, today, prev, risk_scores, clock, sessions, base>>

StoreDateChoices == {0, 28}
MaxStoreRows == 2
MaxStoreSymptoms == 1
MaxStoreAssessments == 1
StoreSymptomChoices == {"fatigue"}

\* cycle_id values a request can carry: none, or the id of a stored cycle
CycleIdChoices == {None} \cup {cycles[i].id : i \in 1..Len(cycles)}

InitStore ==
    /\ user = NoUser
    /\ cycles = <<>>
    /\ symptoms = <<>>
    /\ today = 30
    /\ resp = [op |-> "none"]
    /\ prev = [op |-> "none"]
    /\ risk_scores = <<>>
    /\ clock = 0
    /\ sessions = NoSessions
    /\ base = <<>>

NextStore ==
    \E current_user \in Users :
        \/ /\ Len(cycles) < MaxStoreRows
           /\ \E d \in StoreDateChoices, f \in FlowChoices :
                create_cycle(current_user, d, f)
        \/ \E id \in 1..MaxCycleId : delete_cycle(current_user, id)
        \/ /\ Len(symptoms) < MaxStoreSymptoms
           /\ \E t \in StoreSymptomChoices, cycle_id \in CycleIdChoices :
                create_symptom(current_user, today, t, 5, cycle_id)
        \/ /\ Len(risk_scores) < 4 * MaxStoreAssessments
           /\ get_risk_assessment(current_user)

SpecStore == InitStore /\ [][NextStore]_vars

\* ------------------------------------------- two create_cycle requests
\* Two POST /api/cycles requests of the same user served by different
\* workers, each with its own Session (autocommit off, autoflush off).
\* A request takes four steps, each one round of statements against the
\* shared database: INSERT and COMMIT of the new record; the SELECT of the
\* previous record, whose new cycle_length stays pending in the Session;
\* the SELECT of all records and the prediction; the final COMMIT, which
\* flushes the pending UPDATEs.
Requests == {1, 2}
InterleaveDateChoices == {10, 28}
InterleaveTables ==
    { <<>>,
      <<Row(1, 0, "medium", None)>>,
      <<Row(1, 0, "medium", 56), Row(2, 56, "medium", None)>> }

\* a Session before its request has run any statement
NewSession(start_date) ==
    [pc |-> "insert", start_date |-> start_date,
     new_cycle |-> None, previous_cycle |-> None,
     loaded_length |-> None, cycle_length |-> None,
     predicted_next_start |-> None, prediction_confidence |-> None]

\* position in a table of the row with a primary key
IndexOfId(cs, id) == CHOOSE i \in 1..Len(cs) : cs[i].id = id

InitInterleave ==
    /\ user = NoUser
    /\ cycles \in InterleaveTables
    /\ symptoms = <<>>
    /\ today = 60
    /\ resp = [op |-> "none"]
    /\ prev = [op |-> "none"]
    /\ risk_scores = <<>>
    /\ clock = 0
    /\ sessions \in {[r \in Requests |-> NewSession(d[r])] :
                        d \in [Requests -> InterleaveDateChoices]}
    /\ base = cycles

\* db.add(new_cycle); db.commit()
InsertNewCycle(r) ==
    /\ sessions[r].pc = "insert"
    /\ cycles' = Append(cycles,
                    Row(NextId(cycles), sessions[r].start_date, "medium", None))
    /\ sessions' = [sessions EXCEPT ![r].pc = "lookup",
                                    ![r].new_cycle = NextId(cycles)]
    /\ UNCHANGED <<user, symptoms, today, resp, prev, risk_scores, clock, base>>

\* previous_cycle = db.query(...).first(); if previous_cycle: its
\* cycle_length is assigned in the Session, not yet written
LookupPreviousCycle(r) ==
    /\ sessions[r].pc = "lookup"
    /\ LET cands == PreviousCandidates(cycles, TheUser, sessions[r].start_date)
       IN  IF cands = {}
           THEN sessions' = [sessions EXCEPT ![r].pc = "predict"]
           ELSE \E pc \in cands :
                  sessions' = [sessions EXCEPT
                      ![r].pc = "predict",
                      ![r].previous_cycle = cycles[pc].id,
                      ![r].loaded_length = cycles[pc].cycle_length,
                      ![r].cycle_length =
                          calculate_cycle_length(cycles[pc].start,
                                                 sessions[r].start_date)]
    /\ UNCHANGED <<user, cycles, symptoms, today, resp, prev, risk_scores,
                   clock, base>>

\* the records as the Session of request r sees them: the committed rows,
\* the previous record with its pending cycle_length
SessionView(r) ==
    IF sessions[r].previous_cycle = None THEN cycles
    ELSE [cycles EXCEPT ![IndexOfId(cycles, sessions[r].previous_cycle)]
                            .cycle_length = sessions[r].cycle_length]

\* all_cycles = db.query(...).all(); predict_next_cycle(all_cycles)
PredictForNewCycle(r) ==
    /\ sessions[r].pc = "predict"
    /\ LET p == predict_next_cycle(OfUser(SessionView(r), TheUser), today)
       IN  sessions' = [sessions EXCEPT
               ![r].pc = "commit",
               ![r].predicted_next_start = p.date,
               ![r].prediction_confidence = p.confidence]
    /\ UNCHANGED <<user, cycles, symptoms, today, resp, prev, risk_scores,
                   clock, base>>

\* db.commit(); db.refresh(new_cycle); return new_cycle.  The flush sends
\* an UPDATE of cycle_length for the previous record when the assignment
\* changed the loaded value, and an UPDATE of the two prediction columns
\* of the new record.
CommitNewCycle(r) ==
    /\ sessions[r].pc = "commit"
    /\ LET n == IndexOfId(cycles, sessions[r].new_cycle)
           predicted == [cycles EXCEPT
               ![n].predicted_next_start = sessions[r].predicted_next_start,
               ![n].prediction_confidence = sessions[r].prediction_confidence]
           final ==
               IF \/ sessions[r].previous_cycle = None
                  \/ sessions[r].cycle_length = sessions[r].loaded_length
               THEN predicted
               ELSE [predicted EXCEPT
                       ![IndexOfId(cycles, sessions[r].previous_cycle)]
                           .cycle_length = sessions[r].cycle_length]
       IN  /\ cycles' = final
           /\ resp' = [op |-> "create_cycle", status |-> 201, row |-> final[n]]
    /\ sessions' = [sessions EXCEPT ![r].pc = "done"]
    /\ UNCHANGED <<user, symptoms, today, prev, risk_scores, clock, base>>

NextInterleave ==
    \E r \in Requests :
        \/ InsertNewCycle(r)
        \/ LookupPreviousCycle(r)
        \/ PredictForNewCycle(r)
        \/ CommitNewCycle(r)

SpecInterleave == InitInterleave /\ [][NextInterleave]_vars

\* the symptoms a condition's scorers select by keyword
Linked(c, op, s) ==
    CASE c = "endometriosis" ->
            Contains(s.stype, "pain") \/ (op = "insights" /\ s.stype = "cramps")
      [] c = "anemia" ->
            Contains(s.stype, "fatigue") \/ (op = "insights" /\ Contains(s.stype, "tired"))
      [] c = "pcos" ->
            Contains(s.stype, "acne") \/ Contains(s.stype, "hair") \/ Contains(s.stype, "weight")
      [] OTHER ->
            Contains(s.stype, "weight") \/ Contains(s.stype, "fatigue") \/ Contains(s.stype, "hair")

\* the score of condition c by the scorer family op on symptom list ss
ScoreOn(c, op, ss) ==
    IF op = "insights"
    THEN CASE c = "pcos" -> calculate_pcos_risk(user, cycles, ss).score
           [] c = "endometriosis" -> calculate_endometriosis_risk(ss, cycles).score
           [] c = "anemia" -> calculate_anemia_risk(ss, cycles).score
           [] OTHER -> calculate_thyroid_risk(user, ss, cycles).score
    ELSE CASE c = "pcos" -> agent_calculate_pcos_risk(user, cycles, ss).score
           [] c = "endometriosis" -> agent_calculate_endo_risk(ss, cycles).score
           [] c = "anemia" -> agent_calculate_anemia_risk(ss, cycles).score
           [] OTHER -> agent_calculate_thyroid_risk(user, ss).score

\* C4: raising the severity of one symptom whose type matches a
\* condition's keyword filter, everything else fixed, never lowers the
\* score that condition's scorer returned.
C4_SeverityMonotone ==
    resp.op \in {"insights", "agent"} =>
        \A c \in Conditions : \A i \in 1..Len(symptoms) :
            Linked(c, resp.op, symptoms[i]) =>
                \A v \in (symptoms[i].severity + 1)..10 :
                    ScoreOn(c, resp.op, [symptoms EXCEPT ![i].severity = v])
                        >= resp[c].score

\* C5: a returned score above the baseline 0.1 comes with at least one
\* factor record.
C5_ScoreAboveBaselineHasFactor ==
    resp.op \in {"insights", "agent"} =>
        \A c \in Conditions :
            resp[c].score > 10 => resp[c].factors # <<>>

Diffs(sc) == [i \in 1..(Len(sc) - 1) |-> sc[i + 1].start - sc[i].start]

KeptIdx(D) == {i \in DOMAIN D : 15 <= D[i] /\ D[i] <= 60}

KthKept(D, k) == CHOOSE i \in KeptIdx(D) : Cardinality({j \in KeptIdx(D) : j <= i}) = k

ExpectedGaps(sc) ==
    [k \in 1..Cardinality(KeptIdx(Diffs(sc))) |-> Diffs(sc)[KthKept(Diffs(sc), k)]]

AllEqualInNormalRange(L) ==
    /\ L # <<>>
    /\ \A i \in 1..Len(L) : L[i] = L[1] /\ 21 <= L[i] /\ L[i] <= 35

\* C2: a non-empty gap list with standard deviation 0 (all gaps equal) and
\* every gap in [21, 35] is classified is_regular = true with score 1.0,
\* by _assess_regularity and in the bundle analyze returns.
C2_ConstantNormalGapsAreRegular ==
    /\ (resp.op = "_assess_regularity" /\ AllEqualInNormalRange(resp.lengths))
          => (resp.out.is_regular = TRUE /\ resp.out.score = 100)
    /\ (resp.op = "analyze" /\ AllEqualInNormalRange(ExpectedGaps(sorted(cycles))))
          => (resp.out.is_regular = TRUE /\ resp.out.regularity_score = 100)

C2_Witness ==
    /\ resp.op = "_assess_regularity"
    /\ Len(resp.lengths) >= 2
    /\ AllEqualInNormalRange(resp.lengths)
    /\ resp.lengths[1] = 35
    /\ resp.out.score = 100

\* C7 as stated: with fewer than 2 valid gaps, analysis and prediction
\* report the fallback values, average length 28 and confidence 0.
C7_FallbackAsStated ==
    (Len(ExpectedGaps(sorted(cycles))) < 2)
       => /\ resp.op = "analyze" =>
               /\ resp.out.average_cycle_length = 280
               /\ resp.out.prediction_confidence = 0
          /\ resp.op \in {"predict_next_cycle", "_predict_next_cycle"} =>
               resp.out.confidence = 0

\* C7 amended: with no valid gap and at least one record, analysis reports
\* average length 28 and analysis and prediction report confidence 0.3 and
\* latest start + 28; a single valid gap g is no fallback case: the average
\* is g, the prediction latest start + g and the confidence 0.67.
C7_Fallback ==
    LET sc == sorted(cycles)
        G == ExpectedGaps(sc)
        last == sc[Len(sc)].start
    IN  /\ (cycles # <<>> /\ Len(G) = 0) =>
            /\ resp.op = "analyze" =>
                 /\ resp.out.average_cycle_length = 280
                 /\ resp.out.prediction_confidence = 30
                 /\ resp.out.next_prediction = last + 28
            /\ resp.op \in {"predict_next_cycle", "_predict_next_cycle"} =>
                 /\ resp.out.confidence = 30
                 /\ resp.out.date = last + 28
        /\ (cycles # <<>> /\ Len(G) = 1) =>
            /\ resp.op = "analyze" =>
                 /\ resp.out.average_cycle_length = 10 * G[1]
                 /\ resp.out.prediction_confidence = 67
                 /\ resp.out.next_prediction = last + G[1]
            /\ resp.op \in {"predict_next_cycle", "_predict_next_cycle"} =>
                 /\ resp.out.confidence = 67
                 /\ resp.out.date = last + G[1]

\* two records or more, every gap filtered out, analysis done
C7_Witness ==
    /\ resp.op = "analyze"
    /\ Len(cycles) >= 3
    /\ ExpectedGaps(sorted(cycles)) = <<>>
    /\ resp.out.prediction_confidence = 30

\* C8: with an empty filtered gap list the predictor returns latest start
\* + 28 days with confidence 0.3 when a record exists, and confidence 0.1
\* when no record exists; read for predict_next_cycle, for the analyzer's
\* _predict_next_cycle and for the prediction analyze reports.
C8_EmptyGapPrediction ==
    (ExpectedGaps(sorted(cycles)) = <<>>)
       => /\ (cycles # <<>> /\ resp.op = "analyze") =>
               /\ resp.out.next_prediction = sorted(cycles)[Len(cycles)].start + 28
               /\ resp.out.prediction_confidence = 30
          /\ (cycles # <<>> /\ resp.op \in {"predict_next_cycle", "_predict_next_cycle"}) =>
               /\ resp.out.date = sorted(cycles)[Len(cycles)].start + 28
               /\ resp.out.confidence = 30
          /\ (cycles = <<>> /\ resp.op = "analyze") =>
               resp.out.prediction_confidence = 10
          /\ (cycles = <<>> /\ resp.op = "predict_next_cycle") =>
               resp.out.confidence = 10

\* C10: for the sorted record list, the derived gap list is exactly the
\* adjacent start-date differences lying in [15, 60], in chronological
\* order (analyzer's _calculate_cycle_lengths and the predictor's loop).
C10_GapListIsFilteredDiffs ==
    (resp.op \in {"_calculate_cycle_lengths", "predict_next_cycle"}
       /\ "lengths" \in DOMAIN resp)
       => resp.lengths = ExpectedGaps(sorted(cycles))

\* a gap below 15 and a gap above 60 dropped, a gap of exactly 15 kept
C10_Witness ==
    /\ resp.op = "_calculate_cycle_lengths"
    /\ Len(cycles) = 4
    /\ resp.lengths = <<15>>
    /\ \E i \in 1..3 : Diffs(sorted(cycles))[i] = 14
    /\ \E i \in 1..3 : Diffs(sorted(cycles))[i] = 61

\* C3: for a user on birth control, no endpoint and no analysis returns an
\* ovulation date or a fertile window, nor a value computed from them.
C3_BirthControlSuppressesFertility ==
    user.is_on_birth_control =>
        /\ resp.op = "get_current_cycle" =>
              /\ "fertile_window" \in DOMAIN resp => resp.fertile_window = NoWindow
              /\ "is_fertile_window" \notin DOMAIN resp
        /\ resp.op = "get_cycle_prediction" =>
              /\ "next_ovulation" \in DOMAIN resp => resp.next_ovulation = None
              /\ "fertile_window_start" \in DOMAIN resp => resp.fertile_window_start = None
              /\ "fertile_window_end" \in DOMAIN resp => resp.fertile_window_end = None
        /\ resp.op = "get_fertility_window" =>
              /\ "ovulation" \notin DOMAIN resp
              /\ "fertile_window" \notin DOMAIN resp
        /\ resp.op = "cycle_analysis" =>
              /\ "ovulation_estimate" \in DOMAIN resp.out => resp.out.ovulation_estimate = None
              /\ "fertile_window" \in DOMAIN resp.out => resp.out.fertile_window = NoWindow

\* C9: with zero or one cycle record, or with no valid gap, the prediction
\* and pattern operations answer with status 200 and fallback values, never
\* with an error status.
C9_InsufficientDataIsNoError ==
    (Len(cycles) <= 1 \/ ExpectedGaps(sorted(cycles)) = <<>>) =>
        /\ resp.op = "get_cycle_prediction" =>
              /\ resp.status = 200
              /\ resp.confidence <= 30
        /\ resp.op = "get_cycle_patterns" =>
              /\ resp.status = 200
              /\ resp.average_cycle_length = 280

\* ------------------------------------------------------------------ C11
\* the score the regularity rule prescribes for the gap list G, in
\* hundredths: 1.0 less 0.3 (std > 7) or 0.1 (std > 4), less 0.4 times the
\* share of gaps outside [21, 35], less 0.2 (max - min > 14), clamped once
\* to [0, 1] and given to two decimals
PrescribedRegularity(G) ==
    LET n == Len(G)
        outside == Cardinality({i \in 1..n : G[i] < 21 \/ G[i] > 35})
        spread == CHOOSE d \in 0..60 :
                    \E i \in 1..n, j \in 1..n :
                        /\ d = G[i] - G[j]
                        /\ \A k \in 1..n : G[j] <= G[k] /\ G[k] <= G[i]
        times_n == 100 * n
                   - (IF StdGT(G, 7) THEN 30 * n ELSE IF StdGT(G, 4) THEN 10 * n ELSE 0)
                   - 40 * outside
                   - (IF spread > 14 THEN 20 * n ELSE 0)
    IN  Round(IF times_n < 0 THEN 0 ELSE IF times_n > 100 * n THEN 100 * n ELSE times_n, n)

\* C11: the regularity score returned for a non-empty gap list is the
\* prescribed score (deductions for variability, out-of-range share and
\* spread, one clamp at the end) and lies in [0, 1].
C11_RegularityScoreFormula ==
    LET G == ExpectedGaps(sorted(cycles))
    IN  /\ resp.op = "_assess_regularity" =>
              /\ resp.out.score = PrescribedRegularity(G)
              /\ 0 <= resp.out.score /\ resp.out.score <= 100
        /\ (resp.op = "analyze" /\ G # <<>>) =>
              /\ resp.out.regularity_score = PrescribedRegularity(G)
              /\ 0 <= resp.out.regularity_score /\ resp.out.regularity_score <= 100

\* the documented example: gaps 40 and 45 score 0.6 and are not regular
C11_Witness ==
    /\ resp.op = "_assess_regularity"
    /\ resp.lengths = <<40, 45>>
    /\ resp.out.score = 60
    /\ ~resp.out.is_regular

\* ------------------------------------------------------------------ C12
\* C12: the classifier returns is_regular = true exactly when the score it
\* returns is at least 0.7 and the standard deviation is at most 7.
C12_IsRegularIffScoreAndStd ==
    LET G == ExpectedGaps(sorted(cycles))
    IN  /\ resp.op = "_assess_regularity" =>
              (resp.out.is_regular <=> (resp.out.score >= 70 /\ ~StdGT(G, 7)))
        /\ (resp.op = "analyze" /\ G # <<>>) =>
              (resp.out.is_regular <=> (resp.out.regularity_score >= 70 /\ ~StdGT(G, 7)))

\* ------------------------------------------------------------------ C13
\* round(sum of i * G[i] / sum of i): the mean of the gaps with weight i on
\* the i-th oldest gap, to the nearest day
RecencyWeightedDays(G) ==
    LET n == Len(G)
    IN  Round(SumSeq([i \in 1..n |-> i * G[i]]), SumSeq([i \in 1..n |-> i]))

\* C13: for a non-empty gap list the predicted onset is the latest
\* start_date plus the recency-weighted mean of the gaps (weight i on the
\* i-th oldest gap, weight n on the most recent), rounded to days.
C13_PredictionIsRecencyWeightedMean ==
    LET sc == sorted(cycles)
        G == ExpectedGaps(sc)
        expected == sc[Len(sc)].start + RecencyWeightedDays(G)
    IN  (cycles # <<>> /\ G # <<>>) =>
            /\ resp.op \in {"predict_next_cycle", "_predict_next_cycle"} =>
                  resp.out.date = expected
            /\ resp.op = "analyze" => resp.out.next_prediction = expected

\* three gaps whose order changes the prediction: the weighted mean differs
\* from the plain mean of the gaps
C13_Witness ==
    LET sc == sorted(cycles)
        G == ExpectedGaps(sc)
    IN  /\ resp.op = "predict_next_cycle"
        /\ Len(G) = 3
        /\ G[1] < G[3]
        /\ resp.out.date # sc[Len(sc)].start + Round(SumSeq(G), Len(G))

\* ------------------------------------------------------------------ C14
\* c (hundredths) is 0.6 * max(0, 1 - std/10) + 0.4 * min(1, n/6) rounded
\* to two decimals: c lies within half a hundredth of that value, stated
\* on 36 * n * std = 36 * sqrt(VarNum(G)) to stay within the integers
IsPrescribedConfidence(c, G) ==
    LET n == Len(G)
        m == IF n < 6 THEN n ELSE 6
        V == VarNum(G)
        lo == n * (357 + 40 * m - 6 * c)
        hi == n * (363 + 40 * m - 6 * c)
    IN  IF V >= 100 * n * n
        THEN c = Round(40 * m, 6)
        ELSE /\ lo <= 0 \/ lo * lo <= 1296 * V
             /\ hi >= 0 /\ 1296 * V <= hi * hi

IsConstant(G) == G # <<>> /\ \A i \in 1..Len(G) : G[i] = G[1]

\* C14: for a non-empty gap list the prediction confidence is
\* 0.6 * max(0, 1 - std/10) + 0.4 * min(1, n/6) to two decimals and lies in
\* [0, 1]; n gaps of one length L give the onset latest start + L and the
\* confidence 0.6 + 0.4 * min(1, n/6).
C14_ConfidenceFormula ==
    LET sc == sorted(cycles)
        G == ExpectedGaps(sc)
        n == Len(G)
        reported ==
            IF resp.op = "analyze"
            THEN [date |-> resp.out.next_prediction,
                  confidence |-> resp.out.prediction_confidence]
            ELSE [date |-> resp.out.date, confidence |-> resp.out.confidence]
    IN  (/\ resp.op \in {"predict_next_cycle", "_predict_next_cycle", "analyze"}
         /\ cycles # <<>> /\ G # <<>>) =>
            /\ IsPrescribedConfidence(reported.confidence, G)
            /\ 0 <= reported.confidence /\ reported.confidence <= 100
            /\ IsConstant(G) =>
                  /\ reported.date = sc[Len(sc)].start + G[1]
                  /\ reported.confidence =
                        Round(360 + 40 * (IF n < 6 THEN n ELSE 6), 6)

\* the documented example, two gaps of 28 days: onset 28 days after the
\* latest start, confidence 0.73
C14_Witness ==
    /\ resp.op = "predict_next_cycle"
    /\ Len(cycles) = 3
    /\ resp.lengths = <<28, 28>>
    /\ resp.out.date = cycles[3].start + 28
    /\ resp.out.confidence = 73

\* ------------------------------------------------------------------ C15
\* ovulation date and fertile window prescribed for a latest start and an
\* average length num/den: latest + round(avg - 14), and five days before
\* to one day after it
PrescribedOvulation(latest, avg) == latest + Round(avg.num - 14 * avg.den, avg.den)

PrescribedWindow(latest, avg) ==
    <<PrescribedOvulation(latest, avg) - 5, PrescribedOvulation(latest, avg) + 1>>

\* the clauses of C15 for the analyzer, get_current_cycle and
\* get_fertility_window
C15_ExceptPrediction ==
    LET sc == sorted(cycles)
        latest == sc[Len(sc)].start
        stored == AvgCycle(cycles)
        G == ExpectedGaps(sc)
        analysed == [num |-> SumSeq(G), den |-> Len(G)]
    IN  /\ (resp.op = "get_current_cycle" /\ resp.has_data
                /\ resp.fertile_window # NoWindow) =>
              resp.fertile_window = PrescribedWindow(latest, stored)
        /\ (resp.op = "get_fertility_window" /\ resp.enabled /\ resp.has_data) =>
              /\ resp.ovulation.predicted_date = PrescribedOvulation(latest, stored)
              /\ <<resp.fertile_window.start, resp.fertile_window.end>>
                    = PrescribedWindow(latest, stored)
        /\ (resp.op = "cycle_analysis" /\ G # <<>>) =>
              /\ resp.out.ovulation_estimate = PrescribedOvulation(latest, analysed)
              /\ resp.out.fertile_window = PrescribedWindow(latest, analysed)

\* C15: the ovulation date is latest start + round(avg_length - 14) and the
\* fertile window runs from 5 days before it to 1 day after it, in every
\* operation that reports them: analyzer, get_current_cycle,
\* get_cycle_prediction and get_fertility_window.
C15_OvulationAndWindow ==
    LET sc == sorted(cycles)
        latest == sc[Len(sc)].start
        stored == AvgCycle(cycles)
    IN  /\ C15_ExceptPrediction
        /\ (resp.op = "get_cycle_prediction" /\ resp.status = 200
                /\ resp.next_ovulation # None) =>
              /\ resp.next_ovulation = PrescribedOvulation(latest, stored)
              /\ <<resp.fertile_window_start, resp.fertile_window_end>>
                    = PrescribedWindow(latest, stored)

\* ------------------------------------------------------------------ C16
\* the phase prescribed for cycle day d >= 1 and average length num/den
PrescribedPhase(d, avg) ==
    IF d <= 5 THEN "menstrual"
    ELSE IF d <= 13 THEN "follicular"
    ELSE IF d <= 16 THEN "ovulation"
    ELSE IF d * avg.den <= avg.num THEN "luteal"
    ELSE "late_luteal"

\* C16: the phase reported for cycle day d = today - latest start + 1 >= 1
\* is menstrual on [1,5], follicular on (5,13], ovulation on (13,16],
\* luteal on (16, avg_length] and late_luteal on every later day, in the
\* analyzer and in get_current_cycle alike.
C16_PhaseOfCycleDay ==
    LET G == ExpectedGaps(sorted(cycles))
        analysed == IF G # <<>> THEN [num |-> SumSeq(G), den |-> Len(G)]
                    ELSE [num |-> 28, den |-> 1]
    IN  /\ (resp.op = "get_current_cycle" /\ resp.has_data /\ resp.cycle_day >= 1) =>
              resp.phase = PrescribedPhase(resp.cycle_day, AvgCycle(cycles))
        /\ (resp.op = "cycle_analysis" /\ G # <<>> /\ resp.out.cycle_day >= 1) =>
              resp.out.current_phase = PrescribedPhase(resp.out.cycle_day, analysed)
        /\ (resp.op = "cycle_analysis" /\ G = <<>> /\ resp.out.current_phase.day >= 1) =>
              resp.out.current_phase.phase
                  = PrescribedPhase(resp.out.current_phase.day, analysed)

\* ------------------------------------------------------------------ C17
\* the evidence the rules of condition c triggered on the present inputs:
\* (score, weight) pairs in routers/insights, score increments in the agent
TriggeredEvidence(c) ==
    CASE c = "pcos" -> pcos_evidence(user, cycles, symptoms)
      [] c = "endometriosis" -> endometriosis_evidence(symptoms, cycles)
      [] c = "anemia" -> anemia_evidence(symptoms, cycles)
      [] OTHER -> thyroid_evidence(user, symptoms, cycles)

TriggeredSteps(c) ==
    CASE c = "pcos" -> agent_pcos_steps(user, cycles, symptoms)
      [] c = "endometriosis" -> agent_endo_steps(symptoms, cycles)
      [] c = "anemia" -> agent_anemia_steps(symptoms, cycles)
      [] OTHER -> agent_thyroid_steps(user, symptoms)

\* C17 for the scorers of routers/insights: the score is the sum of
\* evidence * weight over the sum of the weights, to two decimals, and the
\* baseline 0.1 with confidence 0.2 when no rule triggered
C17_InsightsScoreIsWeightedAverage ==
    resp.op = "insights" =>
        \A c \in Conditions :
            LET ev == TriggeredEvidence(c)
                n == Len(ev)
            IN  IF n = 0
                THEN resp[c].score = 10 /\ resp[c].confidence = 20
                ELSE resp[c].score =
                        Round(SumSeq([i \in 1..n |-> ev[i].s * ev[i].w]),
                              SumSeq([i \in 1..n |-> ev[i].w]))

\* C17: every risk scorer returns the weighted average of the evidence its
\* rules triggered, not their sum (an average lies between the smallest and
\* the largest evidence value), and the baseline 0.1 when no rule triggered.
C17_ScoreIsWeightedAverage ==
    /\ C17_InsightsScoreIsWeightedAverage
    /\ resp.op = "agent" =>
          \A c \in Conditions :
              LET st == TriggeredSteps(c)
                  n == Len(st)
              IN  IF n = 0
                  THEN resp[c].score = 10
                  ELSE /\ \E i \in 1..n : st[i].inc <= resp[c].score
                       /\ \E i \in 1..n : resp[c].score <= st[i].inc

\* ------------------------------------------------------------------ C18
\* the row of the same condition stored last before row i, 0 if none
StoredBefore(rs, i) ==
    LET J == {j \in 1..(i - 1) : rs[j].condition_type = rs[i].condition_type}
    IN  IF J = {} THEN 0 ELSE CHOOSE j \in J : \A k \in J : k <= j

\* C18: across get_risk_assessment calls every stored RiskScore row
\* records as previous_score the score of the row of the same condition
\* stored most recently before it, and as trend 'improving' when its
\* score minus that previous score is below -0.1, 'worsening' when it is
\* above 0.1 and 'stable' otherwise; the rows of the first assessment
\* carry no previous score and no trend.
C18_PreviousScoreAndTrend ==
    \A i \in 1..Len(risk_scores) :
        LET b == StoredBefore(risk_scores, i)
            expected == IF b = 0 THEN None ELSE risk_scores[b].score
        IN  /\ risk_scores[i].previous_score = expected
            /\ risk_scores[i].trend = trend_of_exact(risk_scores[i].score, expected)

\* what the code does keep: the first rows have no trend, the previous
\* score is the score of a row carrying the latest timestamp, and the
\* trend is right whenever the difference is not exactly one tenth
C18_Kept ==
    \A i \in 1..Len(risk_scores) :
        LET r == risk_scores[i]
            b == StoredBefore(risk_scores, i)
        IN  /\ b = 0 => r.previous_score = None /\ r.trend = NoTrend
            /\ b # 0 =>
                 /\ \E j \in 1..(i - 1) :
                      /\ risk_scores[j].condition_type = r.condition_type
                      /\ risk_scores[j].score = r.previous_score
                      /\ risk_scores[j].calculated_at = risk_scores[b].calculated_at
                 /\ (r.score - r.previous_score \notin {-10, 10}
                       => r.trend = trend_of_exact(r.score, r.previous_score))

\* the stored trend against the stored previous score, whichever row
\* that score was read from
C18_TrendOfStoredPrevious ==
    \A i \in 1..Len(risk_scores) :
        risk_scores[i].trend =
            trend_of_exact(risk_scores[i].score, risk_scores[i].previous_score)

\* ------------------------------------------------------------------ C19
HormonalCount == Len(SelectSeq(symptoms, LAMBDA x : x.category = "hormonal"))

\* C19: for a profile with a BMI above 30 and at least three symptoms of
\* category hormonal, of any symptom type, the PCOS scorer returns a score
\* above 0.1 and a factors list of at least two entries.
C19_BmiAndHormonalRules ==
    (/\ resp.op \in {"insights", "agent"}
     /\ HasBmi(user) /\ BmiGT(user, 30)
     /\ HormonalCount >= 3)
        => /\ resp.pcos.score > 10
           /\ Len(resp.pcos.factors) >= 2

\* the agent's scorer counts the hormonal category; the router's scorer
\* counts keywords, and does trigger once a keyword reaches its count
C19_Kept ==
    (/\ resp.op \in {"insights", "agent"}
     /\ HasBmi(user) /\ BmiGT(user, 30)
     /\ HormonalCount >= 3)
        => /\ resp.pcos.score > 10
           /\ Len(resp.pcos.factors) >= 1
           /\ (\/ resp.op = "agent"
               \/ \E x \in 1..Len(symptoms) :
                    /\ symptoms[x].category = "hormonal"
                    /\ symptoms[x].stype # "oily_skin")
                 => Len(resp.pcos.factors) >= 2

\* ------------------------------------------------------------------ C20
\* days from record i to the next record by start date, None for the
\* record with the latest start date
DaysToNextRecord(cs, i) ==
    LET later == {cs[j].start : j \in {k \in 1..Len(cs) : cs[k].start > cs[i].start}}
    IN  IF later = {} THEN None
        ELSE (CHOOSE d \in later : \A e \in later : d <= e) - cs[i].start

\* C20: after any sequence of create_cycle calls, in any order of start
\* date, every record that has a later record stores as cycle_length the
\* days to the next record by date, and the record with the latest start
\* date stores no cycle_length.
C20_CycleLengthIsDaysToNext ==
    \A i \in 1..Len(cycles) : cycles[i].cycle_length = DaysToNextRecord(cycles, i)

\* records logged in increasing order of start date do satisfy it
C20_Kept ==
    (\A i, j \in 1..Len(cycles) : i < j => cycles[i].start < cycles[j].start)
        => C20_CycleLengthIsDaysToNext

\* ------------------------------------------------------------------ C22
\* C22: a create_cycle request repeating the start date of a stored record
\* is rejected, so no two stored records share a start date and no stored
\* cycle length is zero.
C22_NoDuplicateStartDates ==
    /\ \A i, j \in 1..Len(cycles) :
         i # j => cycles[i].start # cycles[j].start
    /\ \A i \in 1..Len(cycles) : cycles[i].cycle_length # 0

\* the stored lengths themselves are never zero or negative: the record
\* updated by create_cycle starts strictly before the new one
C22_Kept ==
    \A i \in 1..Len(cycles) :
        cycles[i].cycle_length # None => cycles[i].cycle_length > 0

\* ------------------------------------------------------------------ C23
\* C23: for every list of cycle records, the empty list included, two
\* calls of a predictor on the same records return the same date and the
\* same confidence, whatever the current date of each call.
C23_PredictionIsClockIndependent ==
    (/\ resp.op \in {"predict_next_cycle", "_predict_next_cycle"}
     /\ prev.op = resp.op)
        => /\ resp.out.date = prev.out.date
           /\ resp.out.confidence = prev.out.confidence

\* with at least one record the prediction does not read the clock, and
\* the confidence never does
C23_Kept ==
    (/\ resp.op \in {"predict_next_cycle", "_predict_next_cycle"}
     /\ prev.op = resp.op)
        => /\ cycles # <<>> => resp.out.date = prev.out.date
           /\ resp.out.confidence = prev.out.confidence

\* ------------------------------------------------------------------ C25
\* the same records with every stored length outside [15, 60] cleared
WithoutUnrealisticLengths(cs) ==
    [i \in 1..Len(cs) |->
        IF cs[i].cycle_length # None /\ (cs[i].cycle_length < 15 \/ cs[i].cycle_length > 60)
        THEN [cs[i] EXCEPT !.cycle_length = None]
        ELSE cs[i]]

\* C25: the mean and standard deviation of cycle length that feed risk
\* scoring are computed only over gaps within [15, 60] days, so a stored
\* gap outside that range contributes nothing to the PCOS result.
C25_OnlyRealisticGapsContribute ==
    resp.op = "insights" =>
        resp.pcos = calculate_pcos_risk(user, WithoutUnrealisticLengths(cycles), symptoms)

\* the agent's scorer derives its lengths through the [15, 60] filter
C25_Kept ==
    resp.op = "agent" =>
        \A i \in 1..Len(LengthsUpTo(sorted(cycles), Len(cycles))) :
            /\ 15 <= LengthsUpTo(sorted(cycles), Len(cycles))[i]
            /\ LengthsUpTo(sorted(cycles), Len(cycles))[i] <= 60

\* ------------------------------------------------------------------ C26
\* h is max(2, round(std)) for the gaps G: below 2 never, 2 when the
\* deviation is at most 2.5, otherwise within half a day of the deviation
IsPrescribedMargin(h, G) ==
    LET n == Len(G)
        V == VarNum(G)
    IN  /\ h >= 2
        /\ 4 * V <= (2 * h + 1) * (2 * h + 1) * n * n
        /\ h > 2 => 4 * V >= (2 * h - 1) * (2 * h - 1) * n * n

\* C26: for a non-empty gap list the uncertainty range of the predictor
\* is symmetric around the predicted date with half-width
\* max(2, round(std)) days: it contains the predicted date and is never
\* narrower than two days either side.
C26_RangeIsSymmetricMargin ==
    LET sc == sorted(cycles)
        G == ExpectedGaps(sc)
        reported ==
            IF resp.op = "analyze"
            THEN [date |-> resp.out.next_prediction, range |-> resp.out.prediction_range]
            ELSE [date |-> resp.out.date, range |-> resp.out.range]
    IN  (/\ resp.op \in {"_predict_next_cycle", "analyze"}
         /\ cycles # <<>> /\ G # <<>>) =>
            /\ reported.date - reported.range[1] = reported.range[2] - reported.date
            /\ IsPrescribedMargin(reported.range[2] - reported.date, G)
            /\ reported.range[1] <= reported.date - 2
            /\ reported.date + 2 <= reported.range[2]

\* a range held open by the floor (deviation 0) and one widened by the
\* deviation of the gaps (21 and 60: 19.5, rounded to 20)
C26_Witness ==
    /\ resp.op = "_predict_next_cycle"
    /\ ExpectedGaps(sorted(cycles)) = <<21, 60>>
    /\ resp.out.range = <<resp.out.date - 20, resp.out.date + 20>>

\* ------------------------------------------------------------------ C27
Affirmation == "Your cycles appear regular!"

\* the number of deduction rules that trigger on the gap list G:
\* variability (std above 4), gaps outside [21, 35], max - min > 14
TriggeredRules(G) ==
    LET n == Len(G)
    IN  (IF StdGT(G, 4) THEN 1 ELSE 0)
        + (IF \E i \in 1..n : G[i] < 21 \/ G[i] > 35 THEN 1 ELSE 0)
        + (IF \E i \in 1..n, j \in 1..n : G[i] - G[j] > 14 THEN 1 ELSE 0)

\* C27: the reasons list of the regularity classifier is never empty; it
\* holds exactly one reason per deduction rule that triggered, and it is
\* the single affirmation string exactly when no rule triggered.
C27_OneReasonPerRule ==
    resp.op = "_assess_regularity" =>
        LET reasons == resp.out.reasons
            rules == TriggeredRules(resp.lengths)
        IN  /\ reasons # <<>>
            /\ (rules = 0) <=> (reasons = <<Affirmation>>)
            /\ rules > 0 => Len(reasons) = rules

\* the list is never empty and never mixes the affirmation with a reason
C27_Kept ==
    resp.op = "_assess_regularity" =>
        LET reasons == resp.out.reasons
        IN  /\ reasons # <<>>
            /\ (\E i \in 1..Len(reasons) : reasons[i] = Affirmation)
                 => reasons = <<Affirmation>>
            /\ TriggeredRules(resp.lengths) = 0 => reasons = <<Affirmation>>

\* ------------------------------------------------------------------ C21
\* a step in which delete_cycle removed a record
DeletedCycle == resp'.op = "delete_cycle" /\ resp'.status = 204 /\ cycles' # cycles

\* the remaining records of the deleting user that immediately preceded
\* the deleted record: the latest start date before its start date
PrecedingDeleted ==
    LET mine == OfUser(cycles', resp'.current_user)
    IN  {i \in 1..Len(mine) :
            /\ mine[i].start < resp'.row.start
            /\ \A j \in 1..Len(mine) :
                 mine[j].start < resp'.row.start => mine[j].start <= mine[i].start}

\* C21: after delete_cycle removes a record, the cached cycle_length of
\* the immediately preceding record of that user is the distance to the
\* next remaining record, or is cleared when no later record remains.
C21_DeleteRecomputesPreceding ==
    [][DeletedCycle =>
          LET mine == OfUser(cycles', resp'.current_user)
          IN  \A i \in PrecedingDeleted :
                  mine[i].cycle_length = DaysToNextRecord(mine, i)]_vars

\* what delete_cycle does keep: every remaining cycle record is unchanged
C21_Kept ==
    [][DeletedCycle =>
          cycles' = SelectSeq(cycles, LAMBDA c : c.id # resp'.row.id)]_vars

\* ------------------------------------------------------------------ C29
\* the records of a user with the latest start date
LatestRecords(cs) ==
    {i \in 1..Len(cs) : \A j \in 1..Len(cs) : cs[j].start <= cs[i].start}

\* C29: after any sequence of create_cycle and delete_cycle calls the
\* prediction stored on the record with the latest start date equals
\* predict_next_cycle applied to all current records of that user.
C29_StoredPredictionIsCurrent ==
    \A u \in Users :
        LET mine == OfUser(cycles, u)
            p == predict_next_cycle(mine, today)
        IN  \A i \in LatestRecords(mine) :
                /\ mine[i].predicted_next_start = p.date
                /\ mine[i].prediction_confidence = p.confidence

\* what create_cycle does keep: a new record that is the latest of its
\* user carries the prediction over all of that user's records
C29_Kept ==
    [][(resp'.op = "create_cycle" /\ cycles' # cycles) =>
          LET mine == OfUser(cycles', resp'.row.user_id)
              p == predict_next_cycle(mine, today)
          IN  (\A k \in 1..Len(mine) : mine[k].start <= resp'.row.start)
                 => /\ resp'.row.predicted_next_start = p.date
                    /\ resp'.row.prediction_confidence = p.confidence]_vars

\* ------------------------------------------------------------------ C30
\* a symptom record without its advisory cycle link
WithoutLink(s) == [s EXCEPT !.cycle_id = None]

\* C30: delete_cycle leaves every symptom record in place, unchanged apart
\* from its advisory cycle link, so the risk scorers see the same symptoms
\* before and after the deletion.
C30_DeleteKeepsSymptoms ==
    [][DeletedCycle =>
          /\ Len(symptoms') = Len(symptoms)
          /\ \A i \in 1..Len(symptoms) :
               WithoutLink(symptoms'[i]) = WithoutLink(symptoms[i])]_vars

\* symptoms not linked to the deleted cycle stay as they are
C30_Kept ==
    [][DeletedCycle =>
          symptoms' = SelectSeq(symptoms, LAMBDA s : s.cycle_id # resp'.row.id)]_vars

\* ------------------------------------------------------------------ C24
\* the user a request was made for, read from its response
Actor(r) ==
    IF r.op \in {"create_cycle", "create_symptom"} THEN r.row.user_id
    ELSE r.current_user

\* C24: a create_cycle, delete_cycle, create_symptom or get_risk_assessment
\* call made for one user leaves every cycle record, symptom and
\* risk-score row of the other user unchanged.
C24_SubjectIsolation ==
    [][\A other \in Users :
          other # Actor(resp') =>
              /\ OfUser(cycles', other) = OfUser(cycles, other)
              /\ OfUser(symptoms', other) = OfUser(symptoms, other)
              /\ OfUser(risk_scores', other) = OfUser(risk_scores, other)]_vars

\* cycle records and risk-score rows of the other user are never touched,
\* and a symptom of the other user only goes with the cycle it points at
C24_Kept ==
    [][\A other \in Users :
          other # Actor(resp') =>
              /\ OfUser(cycles', other) = OfUser(cycles, other)
              /\ OfUser(risk_scores', other) = OfUser(risk_scores, other)
              /\ (~DeletedCycle => OfUser(symptoms', other) = OfUser(symptoms, other))]_vars

\* ------------------------------------------------------------------ C28
\* the (start_date, cycle_length) pairs of a table, with how often each
\* pair occurs
LengthPairs(cs) == {<<cs[i].start, cs[i].cycle_length>> : i \in 1..Len(cs)}

SameCachedLengths(a, b) ==
    /\ Len(a) = Len(b)
    /\ \A p \in LengthPairs(a) \cup LengthPairs(b) :
         Cardinality({i \in 1..Len(a) : <<a[i].start, a[i].cycle_length>> = p})
           = Cardinality({i \in 1..Len(b) : <<b[i].start, b[i].cycle_length>> = p})

\* the tables the two requests leave when one runs to its end before the
\* other starts
SerialOutcomes ==
    UNION { UNION { create_cycle_outcomes(mid, TheUser, sessions[o[2]].start_date,
                                          "medium", today) :
                      mid \in create_cycle_outcomes(base, TheUser,
                                  sessions[o[1]].start_date, "medium", today) } :
              o \in {q \in Requests \X Requests : q[1] # q[2]} }

BothDone == \A r \in Requests : sessions # NoSessions /\ sessions[r].pc = "done"

\* C28: when two create_cycle requests of the same user interleave, the
\* final cycle_length values equal those of some serial execution of the
\* two requests.
C28_InterleavingIsSerializable ==
    (sessions # NoSessions /\ BothDone) =>
        \E t \in SerialOutcomes : SameCachedLengths(cycles, t)

\* what the interleaving does keep: both new records and every earlier
\* record are stored, with the start dates of a serial execution
C28_Kept ==
    (sessions # NoSessions /\ BothDone) =>
        \E t \in SerialOutcomes :
            /\ Len(cycles) = Len(t)
            /\ \A d \in {cycles[i].start : i \in 1..Len(cycles)} \cup
                        {t[i].start : i \in 1..Len(t)} :
                 Cardinality({i \in 1..Len(cycles) : cycles[i].start = d})
                   = Cardinality({i \in 1..Len(t) : t[i].start = d})

====
